---- MODULE Spec2Model ----
(***************************************************************************)
(* Login-redirect detection engine of the karakeep workers                 *)
(* (apps/workers/login-redirect-detection): the evaluator (evaluateRule),  *)
(* the rule registry (findRuleForUrl, instagramRule) and the facade        *)
(* (detectLoginRedirect, assertNoLoginRedirect).                           *)
(*                                                                         *)
(* JavaScript values are modelled as follows.                              *)
(*   - strings are TLA+ strings, handled character by character;           *)
(*   - an object with optional properties is a record whose domain holds   *)
(*     exactly the properties that are set ("x ?? d" tests the domain);    *)
(*   - an array is a sequence.                                             *)
(***************************************************************************)
EXTENDS Integers, Sequences, FiniteSets, TLC

VARIABLES
    loginRedirectRules, \* the rule registry (read by findRuleForUrl)
    call,               \* the function called and its arguments
    rule,               \* the rule being evaluated ("rule" in detectLoginRedirect / evaluateRule)
    lookups,            \* the URLs handed to findRuleForUrl, in order
    signalResults,      \* evaluateRule's signalResults array
    result,             \* the value returned by detectLoginRedirect / evaluateRule
    thrown,             \* the error thrown by assertNoLoginRedirect, if any
    pc,                 \* position of the call
    bookmarkLinks,      \* the bookmarkLinks table joined with bookmarks, ordered by id
    LinkCrawlerQueue,   \* the jobs enqueued on the crawler queue, in order
    job,                \* the admin maintenance job: abort signal, locals and position
    bookmarkLinksAtStart \* the table as the maintenance job found it (history)

vars == <<loginRedirectRules, call, rule, lookups, signalResults, result, thrown, pc,
          bookmarkLinks, LinkCrawlerQueue, job, bookmarkLinksAtStart>>

\* The variables of login-redirect detection and those of the maintenance job.
detectionVars == <<loginRedirectRules, call, rule, lookups, signalResults, result, thrown, pc>>
requeueVars == <<bookmarkLinks, LinkCrawlerQueue, job, bookmarkLinksAtStart>>

\* No maintenance job is running.
NoJob ==
    /\ bookmarkLinks = <<>>
    /\ LinkCrawlerQueue = <<>>
    /\ job = [pc |-> "none"]
    /\ bookmarkLinksAtStart = <<>>

---------------------------------------------------------------------------
(* Bounds of the enumerated rules.                                         *)
MaxSignals == 3
MaxWeight == 2
MaxThreshold == 4

---------------------------------------------------------------------------
(* Generic helpers on strings and optional properties.                     *)

Has(obj, field) == field \in DOMAIN obj

\* The value undefined.
Undefined == [undefined |-> TRUE]

\* Array.prototype.join on an array of strings.
RECURSIVE join(_, _)
join(arr, sep) ==
    IF Len(arr) = 0 THEN ""
    ELSE IF Len(arr) = 1 THEN arr[1]
    ELSE arr[1] \o sep \o join(Tail(arr), sep)

---------------------------------------------------------------------------
(* JavaScript string operations, character by character.                   *)

Char(s, i) == SubSeq(s, i, i)

\* s.slice(from - 1): the characters from position from on.
From(s, from) == SubSeq(s, from, Len(s))

UpperLetters == "ABCDEFGHIJKLMNOPQRSTUVWXYZ"
LowerLetters == "abcdefghijklmnopqrstuvwxyz"
Digits == {Char("0123456789", i) : i \in 1..10}
Letters == {Char(UpperLetters, i) : i \in 1..26} \cup {Char(LowerLetters, i) : i \in 1..26}
WhiteSpace == {" ", "\t", "\n"}

LowerOf ==
    [c \in {Char(UpperLetters, i) : i \in 1..26} |->
        Char(LowerLetters, CHOOSE i \in 1..26 : Char(UpperLetters, i) = c)]

LowerChar(c) == IF c \in DOMAIN LowerOf THEN LowerOf[c] ELSE c

\* String.prototype.toLowerCase
RECURSIVE toLowerCase(_)
toLowerCase(s) ==
    IF Len(s) = 0 THEN "" ELSE LowerChar(Char(s, 1)) \o toLowerCase(From(s, 2))

\* String.prototype.startsWith / endsWith / includes
startsWith(s, prefix) ==
    Len(s) >= Len(prefix) /\ SubSeq(s, 1, Len(prefix)) = prefix

endsWith(s, suffix) ==
    Len(s) >= Len(suffix) /\ SubSeq(s, Len(s) - Len(suffix) + 1, Len(s)) = suffix

includes(s, sub) ==
    \E i \in 1..(Len(s) - Len(sub) + 1) : SubSeq(s, i, i + Len(sub) - 1) = sub

\* Number of leading characters of s that are in cs.
RECURSIVE LeadingIn(_, _)
LeadingIn(s, cs) ==
    IF Len(s) = 0 \/ Char(s, 1) \notin cs THEN 0 ELSE 1 + LeadingIn(From(s, 2), cs)

\* Number of trailing characters of s that are in cs.
RECURSIVE TrailingIn(_, _)
TrailingIn(s, cs) ==
    IF Len(s) = 0 \/ Char(s, Len(s)) \notin cs THEN 0
    ELSE 1 + TrailingIn(SubSeq(s, 1, Len(s) - 1), cs)

\* Position of the first character of s in the set cs, or Len(s) + 1.
RECURSIVE FirstOf(_, _)
FirstOf(s, cs) ==
    IF Len(s) = 0 \/ Char(s, 1) \in cs THEN 1 ELSE 1 + FirstOf(From(s, 2), cs)

\* Position of the last character of s in the set cs, or 0.
RECURSIVE LastOf(_, _)
LastOf(s, cs) ==
    IF Len(s) = 0 \/ Char(s, Len(s)) \in cs THEN Len(s)
    ELSE LastOf(SubSeq(s, 1, Len(s) - 1), cs)

\* String.prototype.trim
trim(s) ==
    IF LeadingIn(s, WhiteSpace) = Len(s) THEN ""
    ELSE SubSeq(s, LeadingIn(s, WhiteSpace) + 1, Len(s) - TrailingIn(s, WhiteSpace))

AllIn(s, cs) == \A i \in 1..Len(s) : Char(s, i) \in cs

---------------------------------------------------------------------------
(* new URL(url) of the WHATWG URL standard, without a base URL: the parse   *)
(* of an absolute URL into protocol, hostname and pathname, or a failure    *)
(* (the constructor throws TypeError).  The model covers ASCII URLs without *)
(* percent escapes, IP addresses and dot segments.                          *)

SpecialSchemes == {"http", "https", "ftp", "ws", "wss"}
SchemeChars == Letters \cup Digits \cup {"+", "-", "."}
\* Characters that end the authority of a special URL.
AuthorityEnd == {"/", "\\", "?", "#"}
\* The characters of the host names the model covers.
HostChars == Letters \cup Digits \cup {"-", ".", "_"}
ForbiddenHostChars == {" ", "\t", "\n", "#", "/", ":", "<", ">", "?", "@", "[", "\\", "]", "^", "|", "%"}

ParseFailure == [ok |-> FALSE]

\* "\" counts as "/" in the path of a special URL.
RECURSIVE SlashPath(_)
SlashPath(p) ==
    IF Len(p) = 0 THEN ""
    ELSE (IF Char(p, 1) = "\\" THEN "/" ELSE Char(p, 1)) \o SlashPath(From(p, 2))

\* The authority without credentials: what follows the last "@".
HostPortOf(authority) == From(authority, LastOf(authority, {"@"}) + 1)

\* The path: what precedes the query and the fragment.
PathOf(tail) == SubSeq(tail, 1, FirstOf(tail, {"?", "#"}) - 1)

\* Host and port of a special URL, split at the colon: the host must not be
\* empty, the port must be digits.
SpecialUrl(scheme, hostPort, colon, path) ==
    IF colon = 1 \/ ~AllIn(SubSeq(hostPort, 1, colon - 1), HostChars)
       \/ ~AllIn(From(hostPort, colon + 1), Digits)
    THEN ParseFailure
    ELSE [ok       |-> TRUE,
          protocol |-> scheme \o ":",
          hostname |-> toLowerCase(SubSeq(hostPort, 1, colon - 1)),
          pathname |-> IF Len(path) = 0 THEN "/" ELSE SlashPath(path)]

SpecialHostPort(scheme, hostPort, path) ==
    SpecialUrl(scheme, hostPort, FirstOf(hostPort, {":"}), path)

\* s holds authority and path; the authority ends before position end.
SpecialAuthority(scheme, s, end) ==
    SpecialHostPort(scheme, HostPortOf(SubSeq(s, 1, end - 1)), PathOf(From(s, end)))

SpecialAfterSlashes(scheme, s) ==
    SpecialAuthority(scheme, s, FirstOf(s, AuthorityEnd))

\* The URL after its scheme, for a special scheme: slashes, authority, path.
ParseSpecial(scheme, rest) ==
    SpecialAfterSlashes(scheme, From(rest, LeadingIn(rest, {"/", "\\"}) + 1))

\* Host and port of a URL with another scheme: the host is kept as written.
OpaqueHostUrl(scheme, hostPort, colon, path) ==
    IF (\E i \in 1..(colon - 1) : Char(hostPort, i) \in ForbiddenHostChars)
       \/ ~AllIn(From(hostPort, colon + 1), Digits)
    THEN ParseFailure
    ELSE [ok |-> TRUE, protocol |-> scheme \o ":",
          hostname |-> SubSeq(hostPort, 1, colon - 1), pathname |-> path]

OpaqueHostPort(scheme, hostPort, path) ==
    OpaqueHostUrl(scheme, hostPort, FirstOf(hostPort, {":"}), path)

OpaqueAuthority(scheme, s, end) ==
    OpaqueHostPort(scheme, HostPortOf(SubSeq(s, 1, end - 1)), PathOf(From(s, end)))

OpaqueAfterSlashes(scheme, s) ==
    OpaqueAuthority(scheme, s, FirstOf(s, {"/", "?", "#"}))

\* The URL after its scheme, for any other scheme: "//" starts an authority,
\* anything else is an opaque path.
ParseNonSpecial(scheme, rest) ==
    IF startsWith(rest, "//")
    THEN OpaqueAfterSlashes(scheme, From(rest, 3))
    ELSE [ok |-> TRUE, protocol |-> scheme \o ":", hostname |-> "",
          pathname |-> PathOf(rest)]

ParseAfterScheme(scheme, rest) ==
    IF ~AllIn(scheme, SchemeChars) THEN ParseFailure
    ELSE IF scheme \in SpecialSchemes THEN ParseSpecial(scheme, rest)
    ELSE ParseNonSpecial(scheme, rest)

\* The input has its first ":" at position colon (Len(input) + 1 if none).
ParseScheme(input, colon) ==
    IF colon > Len(input) \/ colon = 1 \/ Char(input, 1) \notin Letters
    THEN ParseFailure
    ELSE ParseAfterScheme(toLowerCase(SubSeq(input, 1, colon - 1)), From(input, colon + 1))

ParseTrimmed(input) == ParseScheme(input, FirstOf(input, {":"}))

\* new URL(url): [ok |-> FALSE] stands for the thrown TypeError.
ParseURL(url) == ParseTrimmed(trim(url))

---------------------------------------------------------------------------
(* cheerio: load(htmlContent) and the queries the signals make.             *)
(*                                                                         *)
(* htmlContent is the markup as its sequence of tags and character data:   *)
(* [open: tag, attrs], [close: tag], [text: data].  load gives every item  *)
(* the list of elements that enclose it; the content of script, style and  *)
(* noscript is character data.                                             *)

Open(tag, attrs) == [type |-> "open", tag |-> tag, attrs |-> attrs]
Close(tag) == [type |-> "close", tag |-> tag]
Text(data) == [type |-> "text", data |-> data]
NoAttrs == [x \in {} |-> ""]

VoidElements == {"input", "br", "img", "meta", "link", "hr"}

\* The open elements left when the innermost open tag element is closed.
RECURSIVE PopTo(_, _)
PopTo(stack, tag) ==
    IF Len(stack) = 0 THEN <<>>
    ELSE IF stack[Len(stack)] = tag THEN SubSeq(stack, 1, Len(stack) - 1)
    ELSE PopTo(SubSeq(stack, 1, Len(stack) - 1), tag)

RECURSIVE loadFrom(_, _)
loadFrom(tokens, stack) ==
    IF Len(tokens) = 0 THEN <<>>
    ELSE LET tok == tokens[1]
             node == tok @@ [ancestors |-> stack]
             next == CASE tok.type = "open" /\ tok.tag \notin VoidElements -> Append(stack, tok.tag)
                       [] tok.type = "close" /\ (\E i \in 1..Len(stack) : stack[i] = tok.tag) ->
                              PopTo(stack, tok.tag)
                       [] OTHER -> stack
         IN  <<node>> \o loadFrom(Tail(tokens), next)

\* load(htmlContent)
load(html) == loadFrom(html, <<>>)

Enclosed(node, tags) == \E i \in 1..Len(node.ancestors) : node.ancestors[i] \in tags

\* $(tag): the elements of the document with that tag name, in order.
Select(dom, tag) ==
    SelectSeq(dom, LAMBDA node : node.type = "open" /\ node.tag = tag)

\* $(tag[attr="value"])
SelectAttrEquals(dom, tag, attr, value) ==
    SelectSeq(Select(dom, tag),
        LAMBDA node : Has(node.attrs, attr) /\ node.attrs[attr] = value)

\* $(tag[attr*="value"])
SelectAttrContains(dom, tag, attr, value) ==
    SelectSeq(Select(dom, tag),
        LAMBDA node : Has(node.attrs, attr) /\ includes(node.attrs[attr], value))

\* $(tag[attr])
SelectAttrPresent(dom, tag, attr) ==
    SelectSeq(Select(dom, tag), LAMBDA node : Has(node.attrs, attr))

\* Variant: the text of script elements is not removed.
RECURSIVE bodyTextWithScripts(_)
bodyTextWithScripts(dom) ==
    IF Len(dom) = 0 THEN ""
    ELSE (IF dom[1].type = "text" /\ ~Enclosed(dom[1], {"head", "style", "noscript"})
          THEN dom[1].data ELSE "")
         \o bodyTextWithScripts(Tail(dom))

\* $("body").clone().find("script, style, noscript").remove().end().text()
RECURSIVE visibleBodyText(_)
visibleBodyText(dom) ==
    IF Len(dom) = 0 THEN ""
    ELSE (IF dom[1].type = "text" /\ ~Enclosed(dom[1], {"head", "script", "style", "noscript"})
          THEN dom[1].data ELSE "")
         \o visibleBodyText(Tail(dom))

---------------------------------------------------------------------------
(* rules/instagram.ts                                                      *)

\* Variant: the suffix compared without its leading dot.
isInstagramHostRawSuffix(parsed) ==
    IF parsed.ok
    THEN parsed.hostname = "instagram.com" \/ endsWith(parsed.hostname, "instagram.com")
    ELSE FALSE

\* hostname === "instagram.com" || hostname.endsWith(".instagram.com"),
\* false in the catch branch.
isInstagramHost(parsed) ==
    IF parsed.ok
    THEN parsed.hostname = "instagram.com" \/ endsWith(parsed.hostname, ".instagram.com")
    ELSE FALSE

isInstagramUrl(url) == isInstagramHost(ParseURL(url))

\* After word: \s*, then rest.
MatchesAfterWord(after, rest) ==
    startsWith(From(after, LeadingIn(after, WhiteSpace) + 1), rest)

\* /^<word>\s*<rest>/i.test(title), on the lower-cased title
MatchesWordsPrefix(lower, word, rest) ==
    startsWith(lower, word) /\ MatchesAfterWord(From(lower, Len(word) + 1), rest)

\* The patterns on the lower-cased title; titles are ASCII, so [oó] is "o".
MatchesLoginTitle(lower) ==
    \/ lower = "instagram"
    \/ MatchesWordsPrefix(lower, "log", "in")
    \/ MatchesWordsPrefix(lower, "sign", "in")
    \/ MatchesWordsPrefix(lower, "iniciar", "sesion")
    \/ startsWith(lower, "connexion")
    \/ startsWith(lower, "anmelden")

\* LOGIN_TITLE_PATTERNS.some((pattern) => pattern.test(title))
LOGIN_TITLE_PATTERNS(title) == MatchesLoginTitle(toLowerCase(title))

\* if (!title) return false; return LOGIN_TITLE_PATTERNS.some(...)
genericTitleOf(title) ==
    IF title = "" THEN FALSE ELSE LOGIN_TITLE_PATTERNS(title)

\* check of "generic-title"
genericTitle(ctx) ==
    IF ~Has(ctx.metadata, "title") THEN FALSE
    ELSE genericTitleOf(trim(ctx.metadata.title))

\* s.replace(/\/+$/, "") || "/"
OrRoot(stripped) == IF stripped = "" THEN "/" ELSE stripped

\* Variant: the pathname as it is, trailing slashes kept.
UntrimmedPath(pathname) == pathname

\* pathname.replace(/\/+$/, "") || "/"
TrimmedPath(pathname) ==
    OrRoot(SubSeq(pathname, 1, Len(pathname) - TrailingIn(pathname, {"/"})))

IsContentPath(path) ==
    includes(path, "/p/") \/ includes(path, "/reel/") \/ includes(path, "/stories/")

\* The two tests on the paths.
pathMismatch(ogPath, originalPath) ==
    IF originalPath # "/" /\ ogPath = "/" THEN TRUE
    ELSE IF IsContentPath(originalPath) THEN ~IsContentPath(ogPath)
    ELSE FALSE

\* The try block, false in the catch branch.
urlMismatch(ogUrlObj, originalUrlObj) ==
    IF ~ogUrlObj.ok \/ ~originalUrlObj.ok THEN FALSE
    ELSE pathMismatch(TrimmedPath(ogUrlObj.pathname), TrimmedPath(originalUrlObj.pathname))

\* check of "og-url-mismatch"
ogUrlMismatch(ctx) ==
    IF ~Has(ctx.metadata, "url") \/ ctx.metadata.url = "" THEN FALSE
    ELSE urlMismatch(ParseURL(ctx.metadata.url), ParseURL(ctx.originalUrl))

\* check of "password-form-present"
passwordFormPresent(ctx) ==
    LET hasPasswordInput ==
            Len(SelectAttrEquals(ctx.dom, "input", "type", "password")) > 0
        hasLoginForm ==
            \/ Len(SelectAttrContains(ctx.dom, "form", "action", "login")) > 0
            \/ Len(SelectAttrContains(ctx.dom, "form", "action", "accounts")) > 0
    IN  hasPasswordInput \/ hasLoginForm

\* includes("log in") && includes("sign up") && includes("forgot password")
hasLoginPhrases(visibleText) ==
    /\ includes(visibleText, "log in")
    /\ includes(visibleText, "sign up")
    /\ includes(visibleText, "forgot password")

\* check of "login-button-present"
loginButtonPresent(ctx) ==
    hasLoginPhrases(toLowerCase(visibleBodyText(ctx.dom)))

\* check of "no-post-content"
noPostContent(ctx) ==
    LET hasArticle == Len(Select(ctx.dom, "article")) > 0
        hasPostMeta == Len(SelectAttrPresent(ctx.dom, "time", "datetime")) > 0
        expectsPost == IsContentPath(ctx.originalUrl)
    IN  expectsPost /\ ~hasArticle /\ ~hasPostMeta

instagramSignals ==
    << [id |-> "generic-title",
        description |-> "Page title is generic 'Instagram' instead of post-specific",
        weight |-> 2, check |-> "generic-title"],
       [id |-> "og-url-mismatch",
        description |-> "og:url points to homepage instead of requested URL",
        weight |-> 2, check |-> "og-url-mismatch"],
       [id |-> "password-form-present",
        description |-> "Page contains password input field (login form)",
        weight |-> 1, check |-> "password-form-present"],
       [id |-> "login-button-present",
        description |-> "Page contains prominent login/signup buttons",
        weight |-> 1, check |-> "login-button-present"],
       [id |-> "no-post-content",
        description |-> "Page lacks expected post content structure",
        weight |-> 1, check |-> "no-post-content"] >>

\* Variant: the rule without thresholdWeight, leaving the default of 2.
instagramRuleDefaultThreshold ==
    [id |-> "instagram",
     siteName |-> "Instagram",
     test |-> [fn |-> "isInstagramUrl"],
     signals |-> instagramSignals,
     detectionMode |-> "threshold"]

instagramRule ==
    [id |-> "instagram",
     siteName |-> "Instagram",
     test |-> [fn |-> "isInstagramUrl"],
     signals |-> instagramSignals,
     detectionMode |-> "threshold",
     thresholdWeight |-> 3]

---------------------------------------------------------------------------
(* The evaluator: evaluateRule.                                            *)
(*                                                                         *)
(* A DetectionSignal is a record [id, description, check] with an optional *)
(* weight; its check function is named by a tag and applied by             *)
(* SignalCheck.  A SiteLoginRedirectRule is a record [id, siteName, test,  *)
(* signals, detectionMode] with an optional thresholdWeight.               *)

\* The check functions of declaratively registered rules: a signal whose
\* check tag is a metadata field name tests that the field is set
\* (check: (ctx) => ctx.metadata.<field> !== undefined).
MetadataFieldChecks == <<"description", "image", "author", "publisher", "logo">>

\* signal.check(context)
SignalCheck(signal, context) ==
    CASE signal.check = "generic-title" -> genericTitle(context)
      [] signal.check = "og-url-mismatch" -> ogUrlMismatch(context)
      [] signal.check = "password-form-present" -> passwordFormPresent(context)
      [] signal.check = "login-button-present" -> loginButtonPresent(context)
      [] signal.check = "no-post-content" -> noPostContent(context)
      [] OTHER -> Has(context.metadata, signal.check)

\* One iteration of the loop over rule.signals: the pushed element.
signalResult(signal, context) ==
    [id      |-> signal.id,
     matched |-> SignalCheck(signal, context),
     weight  |-> IF Has(signal, "weight") THEN signal.weight ELSE 1]

\* The whole loop: signalResults after every signal has been checked.
RECURSIVE evaluateSignals(_, _)
evaluateSignals(signals, context) ==
    IF Len(signals) = 0 THEN <<>>
    ELSE <<signalResult(signals[1], context)>> \o evaluateSignals(Tail(signals), context)

\* Variant: the filter keeps the signals that did not match.
matchedSignalsInverted(results) ==
    LET isUnmatched(r) == ~r.matched IN SelectSeq(results, isUnmatched)

\* signalResults.filter((r) => r.matched)
matchedSignals(results) ==
    LET isMatched(r) == r.matched IN SelectSeq(results, isMatched)

\* matchedSignals.reduce((sum, r) => sum + r.weight, 0)
RECURSIVE totalWeight(_)
totalWeight(matched) ==
    IF Len(matched) = 0 THEN 0
    ELSE matched[1].weight + totalWeight(Tail(matched))

\* Variant: the threshold compared with > instead of >=.
isLoginRedirectStrict(r, matched, total) ==
    CASE r.detectionMode = "any" -> Len(matched) > 0
      [] r.detectionMode = "all" -> Len(matched) = Len(r.signals)
      [] r.detectionMode = "threshold" ->
            total > (IF Has(r, "thresholdWeight") THEN r.thresholdWeight ELSE 2)
      [] OTHER -> FALSE

\* Variant: case "all" without its break, falling through to "threshold".
isLoginRedirectAllFallsThrough(r, matched, total) ==
    CASE r.detectionMode = "any" -> Len(matched) > 0
      [] r.detectionMode \in {"all", "threshold"} ->
            total >= (IF Has(r, "thresholdWeight") THEN r.thresholdWeight ELSE 2)
      [] OTHER -> FALSE

\* Variant: case "any" without its break, falling through to "all".
isLoginRedirectAnyFallsThrough(r, matched, total) ==
    CASE r.detectionMode \in {"any", "all"} -> Len(matched) = Len(r.signals)
      [] r.detectionMode = "threshold" ->
            total >= (IF Has(r, "thresholdWeight") THEN r.thresholdWeight ELSE 2)
      [] OTHER -> FALSE

\* The switch on rule.detectionMode.
isLoginRedirect(r, matched, total) ==
    CASE r.detectionMode = "any" -> Len(matched) > 0
      [] r.detectionMode = "all" -> Len(matched) = Len(r.signals)
      [] r.detectionMode = "threshold" ->
            total >= (IF Has(r, "thresholdWeight") THEN r.thresholdWeight ELSE 2)
      [] OTHER -> FALSE

\* rule.signals.find((sig) => sig.id === s.id)?.description ?? s.id
descriptionOf(r, s) ==
    LET hits == SelectSeq(r.signals, LAMBDA sig : sig.id = s.id)
    IN  IF Len(hits) > 0 THEN hits[1].description ELSE s.id

\* Variant: the descriptions of all signals of the rule, matched or not.
reasonsOfAllSignals(r, matched) ==
    [i \in 1..Len(r.signals) |-> r.signals[i].description]

\* matchedSignals.map(...)
reasons(r, matched) ==
    [i \in 1..Len(matched) |-> descriptionOf(r, matched[i])]

\* Variant: the negative result also names the site.
resultOfNamingSite(r, matched) ==
    IF isLoginRedirect(r, matched, totalWeight(matched))
    THEN [isLoginRedirect |-> TRUE,
          siteName        |-> r.siteName,
          reason          |-> join(reasons(r, matched), "; ")]
    ELSE [isLoginRedirect |-> FALSE, siteName |-> r.siteName]

\* The verdict and the returned object.
resultOf(r, matched) ==
    IF isLoginRedirect(r, matched, totalWeight(matched))
    THEN [isLoginRedirect |-> TRUE,
          siteName        |-> r.siteName,
          reason          |-> join(reasons(r, matched), "; ")]
    ELSE [isLoginRedirect |-> FALSE]

\* The part of evaluateRule after the loop: reduction and result.
evaluateResults(r, results) == resultOf(r, matchedSignals(results))

evaluateRule(r, context) ==
    evaluateResults(r, evaluateSignals(r.signals, context))

---------------------------------------------------------------------------
(* rules/index.ts and the facade.                                          *)

\* test of a rule registered for one host name:
\* (url) => { try { return new URL(url).hostname === h } catch { return false } }
hostIs(parsed, h) == IF parsed.ok THEN parsed.hostname = h ELSE FALSE

hostnameIs(url, h) == hostIs(ParseURL(url), h)

\* rule.test(url)
RuleTest(r, url) ==
    IF r.test.fn = "isInstagramUrl" THEN isInstagramUrl(url)
    ELSE hostnameIs(url, r.test.hostname)

\* Array.prototype.find: the first element, or undefined.
firstOf(hits) == IF Len(hits) > 0 THEN hits[1] ELSE Undefined

\* Variant: the first rule of the registry when no rule matches.
findRuleForUrlOrFirst(url) ==
    firstOf(SelectSeq(loginRedirectRules, LAMBDA r : RuleTest(r, url)) \o loginRedirectRules)

findRuleForUrl(url) ==
    firstOf(SelectSeq(loginRedirectRules, LAMBDA r : RuleTest(r, url)))

\* Variant: every URL that parses counts as a web URL.
isHttpProtocolAny(parsed) == parsed.ok

\* parsed.protocol === "http:" || parsed.protocol === "https:", false in the
\* catch branch.
isHttpProtocol(parsed) ==
    IF parsed.ok THEN parsed.protocol = "http:" \/ parsed.protocol = "https:" ELSE FALSE

isValidHttpUrl(url) == isHttpProtocol(ParseURL(url))

\* found ?? (isValidHttpUrl(browserUrl) ? findRuleForUrl(browserUrl) : undefined)
\* with the calls of findRuleForUrl made.
orBrowserUrlRule(found, originalUrl, browserUrl) ==
    IF found # Undefined
    THEN [rule |-> found, lookups |-> <<originalUrl>>]
    ELSE IF isValidHttpUrl(browserUrl)
         THEN [rule |-> findRuleForUrl(browserUrl), lookups |-> <<originalUrl, browserUrl>>]
         ELSE [rule |-> Undefined, lookups |-> <<originalUrl>>]

\* Variant: browserUrl is looked up before originalUrl.
resolveRuleBrowserFirst(originalUrl, browserUrl) ==
    LET found == IF isValidHttpUrl(browserUrl) THEN findRuleForUrl(browserUrl) ELSE Undefined
    IN  IF found # Undefined
        THEN [rule |-> found, lookups |-> <<browserUrl>>]
        ELSE [rule |-> findRuleForUrl(originalUrl), lookups |-> <<browserUrl, originalUrl>>]

\* Variant: browserUrl is looked up without isValidHttpUrl.
resolveRuleUnchecked(originalUrl, browserUrl) ==
    LET found == findRuleForUrl(originalUrl)
    IN  IF found # Undefined
        THEN [rule |-> found, lookups |-> <<originalUrl>>]
        ELSE [rule |-> findRuleForUrl(browserUrl), lookups |-> <<originalUrl, browserUrl>>]

\* Variant: only originalUrl is looked up.
resolveRuleOriginalOnly(originalUrl, browserUrl) ==
    [rule |-> findRuleForUrl(originalUrl), lookups |-> <<originalUrl>>]

\* const rule = findRuleForUrl(originalUrl) ??
\*   (isValidHttpUrl(browserUrl) ? findRuleForUrl(browserUrl) : undefined)
resolveRule(originalUrl, browserUrl) ==
    orBrowserUrlRule(findRuleForUrl(originalUrl), originalUrl, browserUrl)

buildContext(originalUrl, browserUrl, metadata, htmlContent) ==
    [originalUrl |-> originalUrl,
     browserUrl  |-> browserUrl,
     metadata    |-> metadata,
     htmlContent |-> htmlContent,
     dom         |-> load(htmlContent)]

\* return evaluateRule(rule, context), with the signal checks made.
evaluateRun(resolved, results) ==
    resolved @@ [signalResults |-> results,
                 result |-> evaluateResults(resolved.rule, results)]

\* detectLoginRedirect from  if (!rule)  on.
detectWith(resolved, originalUrl, browserUrl, metadata, htmlContent) ==
    IF resolved.rule = Undefined
    THEN resolved @@ [signalResults |-> <<>>, result |-> [isLoginRedirect |-> FALSE]]
    ELSE evaluateRun(resolved,
            evaluateSignals(resolved.rule.signals,
                buildContext(originalUrl, browserUrl, metadata, htmlContent)))

\* One run of detectLoginRedirect: the rule it resolved, the registry
\* lookups and signal checks it made, and the result it returned.
detectRun(originalUrl, browserUrl, metadata, htmlContent) ==
    detectWith(resolveRule(originalUrl, browserUrl),
               originalUrl, browserUrl, metadata, htmlContent)

detectLoginRedirect(originalUrl, browserUrl, metadata, htmlContent) ==
    detectRun(originalUrl, browserUrl, metadata, htmlContent).result

\* new LoginRedirectDetectedError(siteName, reason, originalUrl)
LoginRedirectDetectedError(siteName, reason, originalUrl) ==
    [name        |-> "LoginRedirectDetectedError",
     message     |-> siteName \o " login redirect detected: " \o reason,
     siteName    |-> siteName,
     reason      |-> reason,
     originalUrl |-> originalUrl]

\* Variant: reason and siteName handed to the constructor in the wrong order.
throwIfLoginRedirectSwapped(res, originalUrl) ==
    IF res.isLoginRedirect
    THEN LoginRedirectDetectedError(
            IF Has(res, "reason") THEN res.reason ELSE "Login redirect detected",
            IF Has(res, "siteName") THEN res.siteName ELSE "Unknown",
            originalUrl)
    ELSE Undefined

\* if (result.isLoginRedirect) throw new LoginRedirectDetectedError(...):
\* the error thrown, or Undefined.
throwIfLoginRedirect(res, originalUrl) ==
    IF res.isLoginRedirect
    THEN LoginRedirectDetectedError(
            IF Has(res, "siteName") THEN res.siteName ELSE "Unknown",
            IF Has(res, "reason") THEN res.reason ELSE "Login redirect detected",
            originalUrl)
    ELSE Undefined

\* The error assertNoLoginRedirect throws, or Undefined when it returns.
assertNoLoginRedirect(originalUrl, browserUrl, metadata, htmlContent) ==
    throwIfLoginRedirect(
        detectLoginRedirect(originalUrl, browserUrl, metadata, htmlContent), originalUrl)

---------------------------------------------------------------------------
(* Inputs.                                                                 *)

SignalIds == <<"s1", "s2", "s3", "s4", "s5">>
SignalDescriptions == <<"first", "second", "third", "fourth", "fifth">>

\* The i-th signal of an enumerated rule; weight 0 stands for no weight.
MakeSignal(i, weight) ==
    LET base == [id |-> SignalIds[i], description |-> SignalDescriptions[i],
                 check |-> MetadataFieldChecks[i]]
    IN  IF weight = 0 THEN base ELSE base @@ [weight |-> weight]

\* A rule for example.com; thresholdWeight 0 stands for no thresholdWeight.
MakeRule(mode, thresholdWeight, weights) ==
    LET base == [id |-> "example", siteName |-> "Example",
                 test |-> [fn |-> "hostnameIs", hostname |-> "example.com"],
                 signals |-> [i \in 1..Len(weights) |-> MakeSignal(i, weights[i])],
                 detectionMode |-> mode]
    IN  IF thresholdWeight = 0 THEN base ELSE base @@ [thresholdWeight |-> thresholdWeight]

DetectionModes == {"any", "all", "threshold"}

Rules ==
    {MakeRule(mode, t, w) :
        mode \in DetectionModes, t \in 0..MaxThreshold,
        w \in UNION {[1..n -> 0..MaxWeight] : n \in 1..MaxSignals}}

\* Metadata in which exactly the fields of the set are present.
MetadataWith(fields) == [f \in fields |-> "x"]

EvalContexts ==
    {buildContext("https://example.com/page", "https://example.com/page",
                  MetadataWith(fs), <<>>) :
        fs \in SUBSET {MetadataFieldChecks[i] : i \in 1..MaxSignals}}

\* The registry as shipped, and the registry extended by one declarative
\* rule for example.com placed after or before the Instagram rule.
Registries ==
    { <<instagramRule>>,
      <<instagramRule, MakeRule("any", 0, <<2, 0>>)>>,
      <<MakeRule("threshold", 2, <<2, 0>>), instagramRule>> }

OriginalUrls ==
    { "https://www.instagram.com/p/ABC123/",
      "https://instagram.com/",
      "https://www.instagram.com/user/",
      "https://example.com/page",
      "https://notinstagram.com/p/x/",
      "ftp://www.instagram.com/reel/1/",
      "instagram.com/p/x",
      "" }

BrowserUrls ==
    { "https://www.instagram.com/accounts/login/",
      "https://www.instagram.com/p/ABC123/",
      "https://example.com/page",
      "ftp://www.instagram.com/accounts/login/",
      "/accounts/login/",
      "about:blank",
      "javascript:void(0)",
      "https://",
      "" }

Titles == {"Instagram", "@user on Instagram"}
OgUrls == {"https://www.instagram.com/", "https://www.instagram.com/p/ABC123/"}

\* Every combination of title and og:url, and every combination of the
\* fields that the signals of the example.com rule test.
Metadatas ==
    {t @@ u :
        t \in {MetadataWith({})} \cup {[title |-> x] : x \in Titles},
        u \in {MetadataWith({})} \cup {[url |-> x] : x \in OgUrls}}
    \cup {[title |-> "Example Page"] @@ MetadataWith(fs) : fs \in SUBSET {"description", "image"}}

loginPageHtml ==
    << Open("html", NoAttrs), Open("head", NoAttrs), Open("title", NoAttrs),
       Text("Instagram"), Close("title"), Close("head"), Open("body", NoAttrs),
       Open("input", [type |-> "password"]),
       Open("span", NoAttrs), Text("Log in"), Close("span"),
       Open("span", NoAttrs), Text("Sign up"), Close("span"),
       Open("span", NoAttrs), Text("Forgot password"), Close("span"),
       Close("body"), Close("html") >>

validPostHtml ==
    << Open("html", NoAttrs), Open("head", NoAttrs), Open("title", NoAttrs),
       Text("@user on Instagram"), Close("title"), Close("head"), Open("body", NoAttrs),
       Open("article", NoAttrs), Open("time", [datetime |-> "2024-01-01"]),
       Close("time"), Close("article"),
       Close("body"), Close("html") >>

scriptOnlyHtml ==
    << Open("html", NoAttrs), Open("body", NoAttrs),
       Open("script", NoAttrs), Text("Log in Sign up Forgot password"), Close("script"),
       Open("div", NoAttrs), Text("Welcome"), Close("div"),
       Close("body"), Close("html") >>

examplePageHtml ==
    << Open("html", NoAttrs), Open("head", NoAttrs), Open("title", NoAttrs),
       Text("Example Page"), Close("title"), Close("head"), Close("html") >>

HtmlContents == {loginPageHtml, validPostHtml, scriptOnlyHtml, examplePageHtml}

---------------------------------------------------------------------------
(* The facade called by the crawler: Spec.                                 *)

NoCall == [fn |-> "none"]

Init ==
    /\ loginRedirectRules \in Registries
    /\ call = NoCall
    /\ rule = Undefined
    /\ lookups = <<>>
    /\ signalResults = <<>>
    /\ result = Undefined
    /\ thrown = Undefined
    /\ pc = "idle"
    /\ NoJob

\* The state that a run of detectLoginRedirect leaves behind.
Detection(fn, originalUrl, browserUrl, metadata, htmlContent) ==
    \E run \in {detectRun(originalUrl, browserUrl, metadata, htmlContent)} :
        /\ call' = [fn |-> fn, originalUrl |-> originalUrl, browserUrl |-> browserUrl,
                    metadata |-> metadata, htmlContent |-> htmlContent]
        /\ rule' = run.rule
        /\ lookups' = run.lookups
        /\ signalResults' = run.signalResults
        /\ result' = run.result
        /\ UNCHANGED loginRedirectRules

CallDetectLoginRedirect ==
    /\ pc = "idle"
    /\ \E originalUrl \in OriginalUrls, browserUrl \in BrowserUrls,
          metadata \in Metadatas, htmlContent \in HtmlContents :
          Detection("detectLoginRedirect", originalUrl, browserUrl, metadata, htmlContent)
    /\ thrown' = Undefined
    /\ pc' = "returned"
    /\ UNCHANGED requeueVars

CallAssertNoLoginRedirect ==
    /\ pc = "idle"
    /\ \E originalUrl \in OriginalUrls, browserUrl \in BrowserUrls,
          metadata \in Metadatas, htmlContent \in HtmlContents :
          /\ Detection("assertNoLoginRedirect", originalUrl, browserUrl, metadata, htmlContent)
          /\ thrown' = throwIfLoginRedirect(result', originalUrl)
    /\ pc' = IF thrown' = Undefined THEN "returned" ELSE "thrown"
    /\ UNCHANGED requeueVars

\* The caller goes on to its next page.
NextCall ==
    /\ pc \in {"returned", "thrown"}
    /\ call' = NoCall
    /\ rule' = Undefined
    /\ lookups' = <<>>
    /\ signalResults' = <<>>
    /\ result' = Undefined
    /\ thrown' = Undefined
    /\ pc' = "idle"
    /\ UNCHANGED loginRedirectRules
    /\ UNCHANGED requeueVars

Next == CallDetectLoginRedirect \/ CallAssertNoLoginRedirect \/ NextCall

Spec == Init /\ [][Next]_vars

---------------------------------------------------------------------------
(* The evaluator alone, signal by signal: SpecEval.                        *)

InitEval ==
    /\ loginRedirectRules = <<instagramRule>>
    /\ rule \in Rules
    /\ \E context \in EvalContexts : call = [fn |-> "evaluateRule", context |-> context]
    /\ lookups = <<>>
    /\ signalResults = <<>>
    /\ result = Undefined
    /\ thrown = Undefined
    /\ pc = "signals"
    /\ NoJob

\* One iteration of  for (const signal of rule.signals).
CheckSignal ==
    /\ pc = "signals"
    /\ Len(signalResults) < Len(rule.signals)
    /\ signalResults' =
          Append(signalResults, signalResult(rule.signals[Len(signalResults) + 1], call.context))
    /\ UNCHANGED <<loginRedirectRules, call, rule, lookups, result, thrown, pc>>
    /\ UNCHANGED requeueVars

\* Variant: in mode "any" the loop is left at the first match.
ReturnVerdictAtFirstMatch ==
    /\ pc = "signals"
    /\ \/ Len(signalResults) = Len(rule.signals)
       \/ /\ rule.detectionMode = "any"
          /\ \E i \in 1..Len(signalResults) : signalResults[i].matched
    /\ result' = evaluateResults(rule, signalResults)
    /\ pc' = "returned"
    /\ UNCHANGED <<loginRedirectRules, call, rule, lookups, signalResults, thrown>>
    /\ UNCHANGED requeueVars

\* The rest of evaluateRule, after the loop.
ReturnVerdict ==
    /\ pc = "signals"
    /\ Len(signalResults) = Len(rule.signals)
    /\ result' = evaluateResults(rule, signalResults)
    /\ pc' = "returned"
    /\ UNCHANGED <<loginRedirectRules, call, rule, lookups, signalResults, thrown>>
    /\ UNCHANGED requeueVars

NextEval == CheckSignal \/ ReturnVerdict

SpecEval == InitEval /\ [][NextEval]_vars

---------------------------------------------------------------------------
(* Properties of the evaluator.                                            *)

\* The positions of the signals of r whose check holds of context.
MatchedAt(r, context) ==
    {i \in 1..Len(r.signals) : SignalCheck(r.signals[i], context)}

\* The weight that the i-th signal of r counts for.
WeightAt(r, i) == IF Has(r.signals[i], "weight") THEN r.signals[i].weight ELSE 1

RECURSIVE WeightOf(_, _)
WeightOf(r, positions) ==
    IF positions = {} THEN 0
    ELSE LET i == CHOOSE x \in positions : TRUE
         IN  WeightAt(r, i) + WeightOf(r, positions \ {i})

\* The descriptions of the signals of r at the given positions, from
\* position i on, each preceded by "; " once something has been written.
RECURSIVE DescriptionsFrom(_, _, _, _)
DescriptionsFrom(r, positions, i, started) ==
    IF i > Len(r.signals) THEN ""
    ELSE IF i \in positions
         THEN (IF started THEN "; " ELSE "") \o r.signals[i].description
              \o DescriptionsFrom(r, positions, i + 1, TRUE)
         ELSE DescriptionsFrom(r, positions, i + 1, started)

Returned == pc = "returned"

\* C1: in threshold mode the verdict is positive exactly when the weights of
\* the matched signals (1 for a signal without weight) sum to at least the
\* rule's thresholdWeight.
ThresholdVerdict ==
    (Returned /\ rule.detectionMode = "threshold" /\ Has(rule, "thresholdWeight"))
        => (result.isLoginRedirect
              <=> WeightOf(rule, MatchedAt(rule, call.context)) >= rule.thresholdWeight)

\* A positive threshold verdict exactly on the threshold, reached with a
\* matched signal that has no weight and with another signal unmatched.
ThresholdVerdictWitness ==
    /\ Returned /\ rule.detectionMode = "threshold" /\ Has(rule, "thresholdWeight")
    /\ result.isLoginRedirect
    /\ WeightOf(rule, MatchedAt(rule, call.context)) = rule.thresholdWeight
    /\ \E i \in MatchedAt(rule, call.context) : ~Has(rule.signals[i], "weight")
    /\ MatchedAt(rule, call.context) # 1..Len(rule.signals)

\* C2: in mode all the verdict is positive exactly when every signal of the
\* rule matched, whatever the weights and the thresholdWeight.
AllVerdict ==
    (Returned /\ rule.detectionMode = "all")
        => (result.isLoginRedirect
              <=> MatchedAt(rule, call.context) = 1..Len(rule.signals))

\* Mode all, every signal matched, the total weight below thresholdWeight:
\* positive.
AllVerdictWitness ==
    /\ Returned /\ rule.detectionMode = "all" /\ result.isLoginRedirect
    /\ Len(rule.signals) > 1
    /\ Has(rule, "thresholdWeight")
    /\ WeightOf(rule, MatchedAt(rule, call.context)) < rule.thresholdWeight

\* C3: in mode any the verdict is positive exactly when at least one signal
\* matched, whatever the weights and the thresholdWeight.
AnyVerdict ==
    (Returned /\ rule.detectionMode = "any")
        => (result.isLoginRedirect <=> MatchedAt(rule, call.context) # {})

\* Mode any, one signal of several matched, its weight below
\* thresholdWeight: positive.
AnyVerdictWitness ==
    /\ Returned /\ rule.detectionMode = "any" /\ result.isLoginRedirect
    /\ Cardinality(MatchedAt(rule, call.context)) = 1
    /\ Len(rule.signals) > 1
    /\ Has(rule, "thresholdWeight")
    /\ WeightOf(rule, MatchedAt(rule, call.context)) < rule.thresholdWeight

\* C5: a positive result's reason is the descriptions of the matched signals,
\* and of no other, joined with "; " in the order of the rule, and its
\* siteName is the rule's.
ReasonListsMatched ==
    (Returned /\ result.isLoginRedirect)
        => /\ result.reason =
                DescriptionsFrom(rule, MatchedAt(rule, call.context), 1, FALSE)
           /\ result.siteName = rule.siteName

\* A positive result with two matched signals around an unmatched one.
ReasonListsMatchedWitness ==
    /\ Returned /\ result.isLoginRedirect
    /\ MatchedAt(rule, call.context) = {1, 3}
    /\ result.reason = "first; third"

---------------------------------------------------------------------------
(* Properties of the facade.                                               *)

Called == pc # "idle"

\* No rule of the registry accepts url.
NoRuleAccepts(url) ==
    \A i \in 1..Len(loginRedirectRules) : ~RuleTest(loginRedirectRules[i], url)

\* The first rule of the registry that accepts url.
FirstRuleAccepting(url) ==
    loginRedirectRules[CHOOSE i \in 1..Len(loginRedirectRules) :
        /\ RuleTest(loginRedirectRules[i], url)
        /\ \A j \in 1..(i - 1) : ~RuleTest(loginRedirectRules[j], url)]

\* The context of the call.
CallContext ==
    buildContext(call.originalUrl, call.browserUrl, call.metadata, call.htmlContent)

\* The signals checked in the call are exactly those of r, in order.
CheckedSignalsOf(r) ==
    /\ Len(signalResults) = Len(r.signals)
    /\ \A i \in 1..Len(r.signals) : signalResults[i].id = r.signals[i].id

\* The page is the Instagram login page: generic title, password input and
\* the three login phrases in visible text.
LoginPageServed ==
    /\ Has(call.metadata, "title") /\ call.metadata.title = "Instagram"
    /\ call.htmlContent = loginPageHtml

\* C4: a result has siteName and reason exactly when it is positive; a
\* negative result is {isLoginRedirect: false} and nothing else, a positive
\* one carries the siteName of the rule and a reason.
ResultFields ==
    (Called /\ result # Undefined)
        => IF result.isLoginRedirect
           THEN /\ DOMAIN result = {"isLoginRedirect", "siteName", "reason"}
                /\ result.siteName = rule.siteName
           ELSE result = [isLoginRedirect |-> FALSE]

\* detectLoginRedirect returned a positive result for Instagram, and the
\* result names site and reason.
ResultFieldsWitness ==
    /\ pc = "returned" /\ call.fn = "detectLoginRedirect"
    /\ result.isLoginRedirect
    /\ result.siteName = "Instagram"
    /\ Len(result.reason) > 0

\* C6: a rule that accepts originalUrl is the rule evaluated, and then
\* browserUrl is not looked up, whatever rule browserUrl would give.
OriginalUrlRuleWins ==
    (Called /\ ~NoRuleAccepts(call.originalUrl))
        => /\ rule = FirstRuleAccepting(call.originalUrl)
           /\ CheckedSignalsOf(FirstRuleAccepting(call.originalUrl))
           /\ lookups = <<call.originalUrl>>

\* originalUrl is accepted by the Instagram rule, browserUrl is a valid web
\* URL accepted by another rule, and the Instagram rule was evaluated.
OriginalUrlRuleWinsWitness ==
    /\ Called
    /\ ~NoRuleAccepts(call.originalUrl) /\ ~NoRuleAccepts(call.browserUrl)
    /\ isValidHttpUrl(call.browserUrl)
    /\ FirstRuleAccepting(call.originalUrl) = instagramRule
    /\ FirstRuleAccepting(call.browserUrl) # instagramRule
    /\ rule = instagramRule
    /\ Len(signalResults) = Len(instagramSignals)

\* The browserUrl values that are not web URLs: empty, about:, javascript:,
\* a relative path, another scheme, and an http(s) URL without a host.
NonWebBrowserUrls ==
    {"", "about:blank", "javascript:void(0)", "/accounts/login/",
     "ftp://www.instagram.com/accounts/login/", "https://"}

HasWebScheme(url) ==
    \/ startsWith(toLowerCase(trim(url)), "http:")
    \/ startsWith(toLowerCase(trim(url)), "https:")

\* C7: browserUrl is looked up only if it is an http(s) URL; with a
\* browserUrl that is none, the call does not raise and its result is the
\* evaluation of the rule of originalUrl, negative if there is none and
\* positive for the login page served for an Instagram post.
NonWebBrowserUrlIgnored ==
    Called =>
        /\ Len(lookups) > 1 =>
              /\ lookups[2] = call.browserUrl
              /\ ParseURL(call.browserUrl).ok
              /\ HasWebScheme(call.browserUrl)
        /\ call.browserUrl \in NonWebBrowserUrls =>
              /\ lookups = <<call.originalUrl>>
              /\ call.fn = "detectLoginRedirect" => pc = "returned"
              /\ IF NoRuleAccepts(call.originalUrl)
                 THEN rule = Undefined /\ result = [isLoginRedirect |-> FALSE]
                 ELSE /\ rule = FirstRuleAccepting(call.originalUrl)
                      /\ result = evaluateRule(rule, CallContext)
              /\ (/\ call.originalUrl = "https://www.instagram.com/p/ABC123/"
                  /\ LoginPageServed)
                    => result.isLoginRedirect

\* The login page at an ftp URL of instagram.com, asked for under a URL
\* without a rule: negative.
NonWebBrowserUrlIgnoredWitness ==
    /\ pc = "returned"
    /\ call.browserUrl = "ftp://www.instagram.com/accounts/login/"
    /\ isInstagramUrl(call.browserUrl)
    /\ NoRuleAccepts(call.originalUrl)
    /\ LoginPageServed
    /\ result = [isLoginRedirect |-> FALSE]

\* C8: when no rule accepts originalUrl and browserUrl is a valid http(s)
\* URL that a rule accepts, that rule is evaluated, so the login page
\* reached by such a redirect is reported.
BrowserUrlRuleUsed ==
    (/\ Called
     /\ NoRuleAccepts(call.originalUrl)
     /\ isValidHttpUrl(call.browserUrl)
     /\ ~NoRuleAccepts(call.browserUrl))
        => /\ rule = FirstRuleAccepting(call.browserUrl)
           /\ CheckedSignalsOf(FirstRuleAccepting(call.browserUrl))
           /\ result = evaluateRule(FirstRuleAccepting(call.browserUrl), CallContext)
           /\ (rule = instagramRule /\ LoginPageServed)
                 => /\ result.isLoginRedirect
                    /\ result.siteName = "Instagram"

\* A page of example.com redirected to the Instagram login page.
BrowserUrlRuleUsedWitness ==
    /\ pc = "returned"
    /\ call.originalUrl = "https://example.com/page"
    /\ NoRuleAccepts(call.originalUrl)
    /\ call.browserUrl = "https://www.instagram.com/accounts/login/"
    /\ LoginPageServed
    /\ rule = instagramRule
    /\ result.isLoginRedirect

\* C9: when no rule accepts originalUrl and browserUrl gives no rule either,
\* the result is {isLoginRedirect: false} whatever the page, no signal is
\* checked, and assertNoLoginRedirect returns.
NoRuleNegative ==
    (/\ Called
     /\ NoRuleAccepts(call.originalUrl)
     /\ (~isValidHttpUrl(call.browserUrl) \/ NoRuleAccepts(call.browserUrl)))
        => /\ result = [isLoginRedirect |-> FALSE]
           /\ signalResults = <<>>
           /\ thrown = Undefined
           /\ pc = "returned"

\* assertNoLoginRedirect returned for the login page markup served at
\* example.com.
NoRuleNegativeWitness ==
    /\ pc = "returned" /\ call.fn = "assertNoLoginRedirect"
    /\ call.originalUrl = "https://example.com/page"
    /\ call.browserUrl = "https://example.com/page"
    /\ NoRuleAccepts(call.originalUrl)
    /\ LoginPageServed
    /\ passwordFormPresent(CallContext)
    /\ result = [isLoginRedirect |-> FALSE]

\* C10: assertNoLoginRedirect throws LoginRedirectDetectedError exactly when
\* detectLoginRedirect is positive on the same arguments; the error has the
\* siteName and reason of that result and the originalUrl argument;
\* otherwise the function returns.
ThrowsExactlyOnPositive ==
    (Called /\ call.fn = "assertNoLoginRedirect")
        => \A detected \in {detectLoginRedirect(call.originalUrl, call.browserUrl,
                                                  call.metadata, call.htmlContent)} :
               /\ pc = "thrown" <=> detected.isLoginRedirect
               /\ pc = "thrown" =>
                     /\ thrown.name = "LoginRedirectDetectedError"
                     /\ thrown.siteName = detected.siteName
                     /\ thrown.reason = detected.reason
                     /\ thrown.originalUrl = call.originalUrl
               /\ pc = "returned" => thrown = Undefined

\* The error thrown for a redirect: it names the URL asked for, not the
\* URL reached.
ThrowsExactlyOnPositiveWitness ==
    /\ pc = "thrown" /\ call.fn = "assertNoLoginRedirect"
    /\ call.originalUrl # call.browserUrl
    /\ thrown.originalUrl = call.originalUrl
    /\ thrown.siteName = "Instagram"

---------------------------------------------------------------------------
(* Malformed URLs.                                                         *)

\* url does not parse (new URL throws).
Unparsable(url) == ~ParseURL(url).ok

\* url does not parse or has a scheme other than http and https.
Malformed(url) == Unparsable(url) \/ ~HasWebScheme(url)

\* The rule of the call was found by the lookup of originalUrl.
ResolvedByOriginalUrl == rule # Undefined /\ lookups = <<call.originalUrl>>

\* The rule of the call was found by the lookup of browserUrl.
ResolvedByBrowserUrl ==
    rule # Undefined /\ lookups = <<call.originalUrl, call.browserUrl>>

\* detectLoginRedirect returned a result object.
ReturnedResult ==
    /\ call.fn = "detectLoginRedirect" => pc = "returned" /\ thrown = Undefined
    /\ result # Undefined /\ Has(result, "isLoginRedirect")

\* C11 as stated: neither an unparsable nor a non-http(s) URL resolves a
\* rule, be it originalUrl or browserUrl, and detectLoginRedirect returns a
\* result without raising.
MalformedUrlNoRule ==
    Called =>
        /\ Malformed(call.originalUrl) => ~ResolvedByOriginalUrl
        /\ Malformed(call.browserUrl) => ~ResolvedByBrowserUrl
        /\ ReturnedResult

\* C11: an unparsable originalUrl resolves no rule, an unparsable or
\* non-http(s) browserUrl resolves no rule, with both the result is
\* {isLoginRedirect: false}, and detectLoginRedirect returns a result without
\* raising for every input; the scheme of a parsable originalUrl is not
\* tested.
UnparsableUrlNoRule ==
    Called =>
        /\ Unparsable(call.originalUrl) => ~ResolvedByOriginalUrl
        /\ Malformed(call.browserUrl) => ~ResolvedByBrowserUrl
        /\ (Unparsable(call.originalUrl) /\ Malformed(call.browserUrl))
              => rule = Undefined /\ result = [isLoginRedirect |-> FALSE]
        /\ ReturnedResult

\* The login page, asked for under a scheme-less instagram.com address and
\* reached at an ftp URL of instagram.com: no rule, negative.
UnparsableUrlNoRuleWitness ==
    /\ pc = "returned" /\ call.fn = "detectLoginRedirect"
    /\ call.originalUrl = "instagram.com/p/x"
    /\ call.browserUrl = "ftp://www.instagram.com/accounts/login/"
    /\ LoginPageServed
    /\ rule = Undefined
    /\ result = [isLoginRedirect |-> FALSE]

---------------------------------------------------------------------------
(* The test of the Instagram rule alone, on assembled URLs: SpecTest.      *)

\* The start of a URL, up to where userinfo and host are written: whether
\* what follows is the authority of the URL, and whether the scheme is a
\* special one (its host is lower-cased).
UrlSchemes ==
    { [text |-> "https://",  authority |-> TRUE,  special |-> TRUE],
      [text |-> "http://",   authority |-> TRUE,  special |-> TRUE],
      [text |-> "HTTPS://",  authority |-> TRUE,  special |-> TRUE],
      [text |-> " https://", authority |-> TRUE,  special |-> TRUE],
      [text |-> "https:",    authority |-> TRUE,  special |-> TRUE],
      [text |-> "ftp://",    authority |-> TRUE,  special |-> TRUE],
      [text |-> "git://",    authority |-> TRUE,  special |-> FALSE],
      [text |-> "mailto:",   authority |-> FALSE, special |-> FALSE],
      [text |-> "//",        authority |-> FALSE, special |-> FALSE],
      [text |-> "",          authority |-> FALSE, special |-> FALSE] }

UrlUserinfos == {"", "user@", "instagram.com@"}

\* Host names as written, with whether the name and its lower-case form are
\* instagram.com or a subdomain of it.
UrlHosts ==
    { [name |-> "instagram.com",          instagram |-> TRUE,  lowered |-> TRUE],
      [name |-> "www.instagram.com",      instagram |-> TRUE,  lowered |-> TRUE],
      [name |-> "help.instagram.com",     instagram |-> TRUE,  lowered |-> TRUE],
      [name |-> "WWW.Instagram.COM",      instagram |-> FALSE, lowered |-> TRUE],
      [name |-> "example.com",            instagram |-> FALSE, lowered |-> FALSE],
      [name |-> "notinstagram.com",       instagram |-> FALSE, lowered |-> FALSE],
      [name |-> "instagram.fake.com",     instagram |-> FALSE, lowered |-> FALSE],
      [name |-> "instagram.com.evil.tld", instagram |-> FALSE, lowered |-> FALSE],
      [name |-> "instagram.com.",         instagram |-> FALSE, lowered |-> FALSE],
      [name |-> "not-a-url",              instagram |-> FALSE, lowered |-> FALSE],
      [name |-> "not a url",              instagram |-> FALSE, lowered |-> FALSE],
      [name |-> "",                       instagram |-> FALSE, lowered |-> FALSE] }

\* Ports as written, with whether the text is a port.
UrlPorts ==
    { [text |-> "",      valid |-> TRUE],
      [text |-> ":8080", valid |-> TRUE],
      [text |-> ":x",    valid |-> FALSE] }

UrlTails ==
    {"", "/", "/p/ABC123/", "/@www.instagram.com/", "?next=.instagram.com", "#@instagram.com"}

\* The URL written from its parts.
UrlOf(scheme, userinfo, host, port, tail) ==
    scheme.text \o userinfo \o host.name \o port.text \o tail

InitTest ==
    /\ loginRedirectRules = <<instagramRule>>
    /\ call = NoCall
    /\ rule = Undefined
    /\ lookups = <<>>
    /\ signalResults = <<>>
    /\ result = Undefined
    /\ thrown = Undefined
    /\ pc = "idle"
    /\ NoJob

\* instagramRule.test(url)
CallRuleTest ==
    /\ pc = "idle"
    /\ \E scheme \in UrlSchemes, userinfo \in UrlUserinfos, host \in UrlHosts,
          port \in UrlPorts, tail \in UrlTails :
          \* without a host name nothing else of the authority is written
          /\ host.name = "" => (userinfo = "" /\ port.text = "" /\ tail = "")
          /\ call' = [fn |-> "test", url |-> UrlOf(scheme, userinfo, host, port, tail),
                      scheme |-> scheme, userinfo |-> userinfo, host |-> host,
                      port |-> port, tail |-> tail]
          /\ result' = RuleTest(instagramRule, call'.url)
    /\ pc' = "returned"
    /\ UNCHANGED <<loginRedirectRules, rule, lookups, signalResults, thrown>>
    /\ UNCHANGED requeueVars

NextTest == CallRuleTest \/ NextCall

SpecTest == InitTest /\ [][NextTest]_vars

\* Whether the parts of the URL of the call make a URL whose host name is
\* instagram.com or a subdomain of it.
WrittenForInstagram ==
    /\ call.scheme.authority
    /\ call.port.valid
    /\ IF call.scheme.special THEN call.host.lowered ELSE call.host.instagram

\* C12: the test of the Instagram rule is true exactly of the URLs that
\* parse to the host name instagram.com or to a name ending in
\* ".instagram.com"; it is false, and does not raise, for look-alike hosts
\* and for text that is no URL or has no scheme.
InstagramTestExact ==
    (pc = "returned" /\ call.fn = "test") =>
        /\ result \in BOOLEAN
        /\ result = WrittenForInstagram
        /\ result =>
              /\ ParseURL(call.url).ok
              /\ \/ ParseURL(call.url).hostname = "instagram.com"
                 \/ endsWith(ParseURL(call.url).hostname, ".instagram.com")
        /\ call.host.name \in {"notinstagram.com", "instagram.fake.com",
                               "instagram.com.evil.tld", "example.com"} => ~result
        /\ call.scheme.text \in {"", "//"} => ~result
        /\ call.url \in {"", "not a url", "not-a-url", "instagram.com/p/ABC123/"} => ~result

\* The test was applied to a look-alike host behind an instagram.com user
\* name, and was false.
InstagramTestExactWitness ==
    /\ pc = "returned" /\ call.fn = "test"
    /\ call.url = "https://instagram.com@notinstagram.com/p/ABC123/"
    /\ result = FALSE

---------------------------------------------------------------------------
(* Several callers inside detectLoginRedirect / assertNoLoginRedirect at   *)
(* once, their statements interleaved: SpecConcurrent.                     *)
(*                                                                         *)
(* Here every variable but loginRedirectRules is a function of the caller: *)
(* call[c] is the frame of caller c (its arguments and, once built, its    *)
(* context), rule[c], lookups[c], signalResults[c] and result[c] are its   *)
(* locals, thrown[c] the error it threw and pc[c] its position.            *)

MaxCallers == 2
Callers == 1..MaxCallers

\* The arguments of the calls: the login page and a post page asked for at
\* Instagram, and a page without rule.
ConcurrentArguments ==
    { [originalUrl |-> "https://www.instagram.com/p/ABC123/",
       browserUrl  |-> "https://www.instagram.com/accounts/login/",
       metadata    |-> [title |-> "Instagram", url |-> "https://www.instagram.com/"],
       htmlContent |-> loginPageHtml],
      [originalUrl |-> "https://www.instagram.com/p/ABC123/",
       browserUrl  |-> "https://www.instagram.com/p/ABC123/",
       metadata    |-> [title |-> "@user on Instagram",
                        url   |-> "https://www.instagram.com/p/ABC123/"],
       htmlContent |-> validPostHtml],
      [originalUrl |-> "https://example.com/page",
       browserUrl  |-> "https://example.com/page",
       metadata    |-> [title |-> "Example Page"],
       htmlContent |-> examplePageHtml] }

InitConcurrent ==
    /\ loginRedirectRules = <<instagramRule>>
    /\ call = [c \in Callers |-> NoCall]
    /\ rule = [c \in Callers |-> Undefined]
    /\ lookups = [c \in Callers |-> <<>>]
    /\ signalResults = [c \in Callers |-> <<>>]
    /\ result = [c \in Callers |-> Undefined]
    /\ thrown = [c \in Callers |-> Undefined]
    /\ pc = [c \in Callers |-> "idle"]
    /\ NoJob

\* Caller c enters detectLoginRedirect, directly or through
\* assertNoLoginRedirect.
Enter(c) ==
    /\ pc[c] = "idle"
    /\ \E fn \in {"detectLoginRedirect", "assertNoLoginRedirect"},
          arguments \in ConcurrentArguments :
          call' = [call EXCEPT ![c] = [fn |-> fn] @@ arguments]
    /\ pc' = [pc EXCEPT ![c] = "resolve"]
    /\ UNCHANGED <<loginRedirectRules, rule, lookups, signalResults, result, thrown>>
    /\ UNCHANGED requeueVars

\* What assertNoLoginRedirect does with the result of caller c, and where a
\* caller of detectLoginRedirect is after its return.
Leave(c, res) ==
    /\ result' = [result EXCEPT ![c] = res]
    /\ thrown' = [thrown EXCEPT ![c] =
                    IF call[c].fn = "assertNoLoginRedirect"
                    THEN throwIfLoginRedirect(res, call[c].originalUrl)
                    ELSE Undefined]
    /\ pc' = [pc EXCEPT ![c] = IF thrown'[c] = Undefined THEN "returned" ELSE "thrown"]

\* const rule = ...; if (!rule) return { isLoginRedirect: false }
Resolve(c) ==
    /\ pc[c] = "resolve"
    /\ \E resolved \in {resolveRule(call[c].originalUrl, call[c].browserUrl)} :
          /\ rule' = [rule EXCEPT ![c] = resolved.rule]
          /\ lookups' = [lookups EXCEPT ![c] = resolved.lookups]
          /\ IF resolved.rule = Undefined
             THEN Leave(c, [isLoginRedirect |-> FALSE])
             ELSE /\ pc' = [pc EXCEPT ![c] = "context"]
                  /\ UNCHANGED <<result, thrown>>
    /\ UNCHANGED <<loginRedirectRules, call, signalResults>>
    /\ UNCHANGED requeueVars

\* Variant: the context is kept in one module-level variable, so building it
\* replaces the context of every call under way.
storeContextShared(frames, c, context) ==
    [w \in DOMAIN frames |->
        IF w = c THEN frames[w] @@ [context |-> context]
        ELSE IF Has(frames[w], "context") THEN [frames[w] EXCEPT !.context = context]
        ELSE frames[w]]

\* const context: LoginRedirectContext = {...}: a local of the call.
storeContext(frames, c, context) ==
    [frames EXCEPT ![c] = frames[c] @@ [context |-> context]]

\* const $ = load(htmlContent); const context = {...}
Build(c) ==
    /\ pc[c] = "context"
    /\ call' = storeContext(call, c,
                  buildContext(call[c].originalUrl, call[c].browserUrl,
                               call[c].metadata, call[c].htmlContent))
    /\ pc' = [pc EXCEPT ![c] = "signals"]
    /\ UNCHANGED <<loginRedirectRules, rule, lookups, signalResults, result, thrown>>
    /\ UNCHANGED requeueVars

\* Variant: signalResults is one module-level array, so a pushed element is
\* seen by every caller.
CheckShared(c) ==
    /\ pc[c] = "signals"
    /\ Len(signalResults[c]) < Len(rule[c].signals)
    /\ signalResults' = [w \in Callers |->
          Append(signalResults[w],
                 signalResult(rule[c].signals[Len(signalResults[c]) + 1], call[c].context))]
    /\ UNCHANGED <<loginRedirectRules, call, rule, lookups, result, thrown, pc>>
    /\ UNCHANGED requeueVars

\* One iteration of the loop of evaluateRule in the call of caller c.
Check(c) ==
    /\ pc[c] = "signals"
    /\ Len(signalResults[c]) < Len(rule[c].signals)
    /\ signalResults' = [signalResults EXCEPT ![c] =
          Append(@, signalResult(rule[c].signals[Len(@) + 1], call[c].context))]
    /\ UNCHANGED <<loginRedirectRules, call, rule, lookups, result, thrown, pc>>
    /\ UNCHANGED requeueVars

\* The rest of evaluateRule, and the return or throw.
Return(c) ==
    /\ pc[c] = "signals"
    /\ Len(signalResults[c]) = Len(rule[c].signals)
    /\ Leave(c, evaluateResults(rule[c], signalResults[c]))
    /\ UNCHANGED <<loginRedirectRules, call, rule, lookups, signalResults>>
    /\ UNCHANGED requeueVars

\* Caller c goes on to its next page.
Again(c) ==
    /\ pc[c] \in {"returned", "thrown"}
    /\ call' = [call EXCEPT ![c] = NoCall]
    /\ rule' = [rule EXCEPT ![c] = Undefined]
    /\ lookups' = [lookups EXCEPT ![c] = <<>>]
    /\ signalResults' = [signalResults EXCEPT ![c] = <<>>]
    /\ result' = [result EXCEPT ![c] = Undefined]
    /\ thrown' = [thrown EXCEPT ![c] = Undefined]
    /\ pc' = [pc EXCEPT ![c] = "idle"]
    /\ UNCHANGED loginRedirectRules
    /\ UNCHANGED requeueVars

NextConcurrent ==
    \E c \in Callers :
        Enter(c) \/ Resolve(c) \/ Build(c) \/ Check(c) \/ Return(c) \/ Again(c)

SpecConcurrent == InitConcurrent /\ [][NextConcurrent]_vars

\* Caller c has left its call, by return or by throw.
Finished(c) == pc[c] \in {"returned", "thrown"}

\* The arguments of the call of caller c.
ArgumentsOf(c) ==
    [originalUrl |-> call[c].originalUrl, browserUrl |-> call[c].browserUrl,
     metadata |-> call[c].metadata, htmlContent |-> call[c].htmlContent]

\* The result of detectLoginRedirect run alone, for each of the arguments.
AloneResults ==
    [a \in ConcurrentArguments |->
        detectLoginRedirect(a.originalUrl, a.browserUrl, a.metadata, a.htmlContent)]

\* The context built from each of the arguments.
OwnContexts ==
    [a \in ConcurrentArguments |->
        buildContext(a.originalUrl, a.browserUrl, a.metadata, a.htmlContent)]

\* The result of running the call of caller c alone.
AloneResult(c) == AloneResults[ArgumentsOf(c)]

\* C13: however the statements of concurrent calls interleave, the registry
\* stays as initialised, the context a call evaluates is the one built from
\* its own arguments, and the result (and the error thrown by
\* assertNoLoginRedirect) of every call is that of the call run alone.
IndependentCalls ==
    /\ loginRedirectRules = <<instagramRule>>
    /\ \A c \in Callers :
          /\ pc[c] = "signals" =>
                call[c].context = OwnContexts[ArgumentsOf(c)]
          /\ Finished(c) =>
                \A alone \in {AloneResult(c)} :
                    /\ result[c] = alone
                    /\ thrown[c] = IF call[c].fn = "assertNoLoginRedirect"
                                   THEN throwIfLoginRedirect(alone, call[c].originalUrl)
                                   ELSE Undefined

\* One caller was thrown the error for the login page while another caller,
\* half-way through the signals of a post page, had its own context.
IndependentCallsWitness ==
    \E c, d \in Callers :
        /\ pc[c] = "thrown" /\ call[c].htmlContent = loginPageHtml
        /\ result[c].isLoginRedirect
        /\ pc[d] = "signals" /\ call[d].htmlContent = validPostHtml
        /\ Len(signalResults[d]) = 2

\* C14: two calls with the same arguments have the same result, whatever
\* calls were made before and between them and whichever of the two
\* functions made them.
Deterministic ==
    \A c, d \in Callers :
        (Finished(c) /\ Finished(d) /\ ArgumentsOf(c) = ArgumentsOf(d))
            => result[c] = result[d]

\* Two callers have left calls with the same arguments, for the login page
\* of an Instagram post, one by return and one by throw, with the same result.
DeterministicWitness ==
    \E c, d \in Callers :
        /\ pc[c] = "returned" /\ pc[d] = "thrown"
        /\ ArgumentsOf(c) = ArgumentsOf(d)
        /\ call[c].originalUrl = "https://www.instagram.com/p/ABC123/"
        /\ result[c].isLoginRedirect /\ result[d] = result[c]

---------------------------------------------------------------------------
(* The checks of the Instagram signals alone, on assembled pages and URLs: *)
(* SpecSignals.                                                            *)

\* The three phrases of the login page as the page writes them: in mixed
\* and in upper case, and in two pieces.
LoginPhrases ==
    << [shown |-> "Log in",  upper |-> "LOG IN",  first |-> "Log",  second |-> " in"],
       [shown |-> "Sign up", upper |-> "SIGN UP", first |-> "Sign", second |-> " up"],
       [shown |-> "Forgot password?", upper |-> "FORGOT PASSWORD",
        first |-> "Forgot ", second |-> "password"] >>

\* Where a page has a phrase: in the text of an element of the body (as
\* written, in upper case, or split over two adjacent elements), or only in
\* a script, a style sheet, a noscript element or an attribute, or nowhere.
RenderedPlacements == {"rendered", "upper", "split"}
UnrenderedPlacements == {"script", "style", "noscript", "attribute", "absent"}
Placements == RenderedPlacements \cup UnrenderedPlacements

\* The markup of a phrase at a placement.
Fragment(phrase, placement) ==
    CASE placement = "rendered" ->
            <<Open("span", NoAttrs), Text(phrase.shown), Close("span")>>
      [] placement = "upper" ->
            <<Open("button", NoAttrs), Text(phrase.upper), Close("button")>>
      [] placement = "split" ->
            <<Open("b", NoAttrs), Text(phrase.first), Close("b"),
              Open("i", NoAttrs), Text(phrase.second), Close("i")>>
      [] placement = "script" ->
            <<Open("script", NoAttrs), Text("var label = '" \o phrase.shown \o "';"),
              Close("script")>>
      [] placement = "style" ->
            <<Open("style", NoAttrs), Text("/* " \o phrase.shown \o " */"), Close("style")>>
      [] placement = "noscript" ->
            <<Open("noscript", NoAttrs), Text(phrase.shown), Close("noscript")>>
      [] placement = "attribute" ->
            <<Open("input", [placeholder |-> phrase.shown])>>
      [] OTHER -> <<>>

\* A page with the three phrases at the given placements.
PageWith(placements) ==
    <<Open("html", NoAttrs), Open("head", NoAttrs), Open("title", NoAttrs),
      Text("Instagram"), Close("title"), Close("head"), Open("body", NoAttrs)>>
    \o Fragment(LoginPhrases[1], placements[1]) \o <<Open("br", NoAttrs)>>
    \o Fragment(LoginPhrases[2], placements[2]) \o <<Open("br", NoAttrs)>>
    \o Fragment(LoginPhrases[3], placements[3])
    \o <<Close("body"), Close("html")>>

InitSignals ==
    /\ loginRedirectRules = <<instagramRule>>
    /\ call = NoCall
    /\ rule = Undefined
    /\ lookups = <<>>
    /\ signalResults = <<>>
    /\ result = Undefined
    /\ thrown = Undefined
    /\ pc = "idle"
    /\ NoJob

\* The signal of the Instagram rule with the given id.
InstagramSignal(id) ==
    instagramSignals[CHOOSE i \in 1..Len(instagramSignals) : instagramSignals[i].id = id]

\* check(ctx) of "login-button-present" on an assembled page.
CallLoginButtonCheck ==
    /\ pc = "idle"
    /\ \E placements \in [1..3 -> Placements] :
          /\ call' = [fn |-> "check", signal |-> "login-button-present",
                      placements |-> placements, htmlContent |-> PageWith(placements)]
          /\ result' = SignalCheck(InstagramSignal("login-button-present"),
                          buildContext("https://www.instagram.com/p/ABC123/",
                                       "https://www.instagram.com/accounts/login/",
                                       [title |-> "Instagram"], call'.htmlContent))
    /\ pc' = "returned"
    /\ UNCHANGED <<loginRedirectRules, rule, lookups, signalResults, thrown>>
    /\ UNCHANGED requeueVars

---------------------------------------------------------------------------
(* The check of "og-url-mismatch" on assembled URLs.                       *)

\* Paths as written in a URL.  root, content: the path is the root, and
\* contains "/p/", "/reel/" or "/stories/".  trimmedRoot, trimmedContent:
\* the same of the path without its trailing slashes.
UrlPaths ==
    { [text |-> "",
       root |-> TRUE,  content |-> FALSE, trimmedRoot |-> TRUE,  trimmedContent |-> FALSE],
      [text |-> "/",
       root |-> TRUE,  content |-> FALSE, trimmedRoot |-> TRUE,  trimmedContent |-> FALSE],
      [text |-> "/user/",
       root |-> FALSE, content |-> FALSE, trimmedRoot |-> FALSE, trimmedContent |-> FALSE],
      [text |-> "/accounts/login/",
       root |-> FALSE, content |-> FALSE, trimmedRoot |-> FALSE, trimmedContent |-> FALSE],
      [text |-> "/p/ABC123/",
       root |-> FALSE, content |-> TRUE,  trimmedRoot |-> FALSE, trimmedContent |-> TRUE],
      [text |-> "/p/ABC123",
       root |-> FALSE, content |-> TRUE,  trimmedRoot |-> FALSE, trimmedContent |-> TRUE],
      [text |-> "/reel/ABC123/",
       root |-> FALSE, content |-> TRUE,  trimmedRoot |-> FALSE, trimmedContent |-> TRUE],
      [text |-> "/stories/username/123456/",
       root |-> FALSE, content |-> TRUE,  trimmedRoot |-> FALSE, trimmedContent |-> TRUE],
      [text |-> "/p/",
       root |-> FALSE, content |-> TRUE,  trimmedRoot |-> FALSE, trimmedContent |-> FALSE],
      [text |-> "/stories/",
       root |-> FALSE, content |-> TRUE,  trimmedRoot |-> FALSE, trimmedContent |-> FALSE] }

\* What precedes the path: an origin, or nothing (then the text is no URL).
UrlOrigins ==
    { [text |-> "https://www.instagram.com", parsable |-> TRUE],
      [text |-> "", parsable |-> FALSE],
      [text |-> "www.instagram.com", parsable |-> FALSE] }

\* What follows the path.
UrlQueries == {"", "?next=/p/ABC123/"}

\* metadata.url: absent, empty, or written from origin, path and query.
WrittenOgUrls ==
    {[kind |-> "absent"], [kind |-> "empty", text |-> ""]}
    \cup {[kind |-> "written", text |-> origin.text \o path.text \o query,
           parsable |-> origin.parsable, path |-> path] :
            origin \in UrlOrigins, path \in UrlPaths, query \in UrlQueries}

\* originalUrl, written from origin and path.
WrittenOriginalUrls ==
    {[text |-> origin.text \o path.text, parsable |-> origin.parsable, path |-> path] :
        origin \in UrlOrigins, path \in UrlPaths}

\* check(ctx) of "og-url-mismatch".
CallOgUrlCheck ==
    /\ pc = "idle"
    /\ \E original \in WrittenOriginalUrls, og \in WrittenOgUrls :
          /\ call' = [fn |-> "check", signal |-> "og-url-mismatch",
                      original |-> original, og |-> og]
          /\ result' = SignalCheck(InstagramSignal("og-url-mismatch"),
                          buildContext(original.text, original.text,
                                       IF og.kind = "absent" THEN MetadataWith({})
                                       ELSE [url |-> og.text],
                                       <<>>))
    /\ pc' = "returned"
    /\ UNCHANGED <<loginRedirectRules, rule, lookups, signalResults, thrown>>
    /\ UNCHANGED requeueVars

NextSignals == CallLoginButtonCheck \/ CallOgUrlCheck \/ NextCall

SpecSignals == InitSignals /\ [][NextSignals]_vars

\* C15: "login-button-present" matches exactly when each of "log in",
\* "sign up" and "forgot password" is in the text of the body outside
\* script, style and noscript elements, in any letter case; phrases that are
\* only inside such elements (or in attributes) do not count.
LoginButtonOnRenderedText ==
    (pc = "returned" /\ call.signal = "login-button-present") =>
        result = (\A i \in 1..3 : call.placements[i] \in RenderedPlacements)

\* The check of a page with the three phrases in a script, a style sheet and
\* a noscript element only: no match.
LoginButtonOnRenderedTextWitness ==
    /\ pc = "returned" /\ call.signal = "login-button-present"
    /\ call.placements = <<"script", "style", "noscript">>
    /\ includes(call.htmlContent[9].data, "Log in")
    /\ result = FALSE

---------------------------------------------------------------------------
(* detectLoginRedirect on pages of Instagram assembled from their parts:   *)
(* SpecInstagram.                                                          *)

\* The URLs asked for: a post, a reel, a story and a profile.
RequestedUrls ==
    [post    |-> "https://www.instagram.com/p/ABC123/",
     reel    |-> "https://www.instagram.com/reel/ABC123/",
     stories |-> "https://www.instagram.com/stories/username/123456/",
     profile |-> "https://www.instagram.com/user/"]

ContentKinds == {"post", "reel", "stories"}

\* The URL reached: the login page, or the URL asked for.
ReachedUrl(reached, originalUrl) ==
    IF reached = "login" THEN "https://www.instagram.com/accounts/login/" ELSE originalUrl

\* metadata.title: the generic title, a post-specific one, or none.
TitleOf(title) ==
    CASE title = "generic" -> [title |-> "Instagram"]
      [] title = "post" -> [title |-> "@user on Instagram: Post caption"]
      [] OTHER -> MetadataWith({})

\* metadata.url (og:url): the site root, the URL asked for, or none.
OgUrlOf(og, originalUrl) ==
    CASE og = "root" -> [url |-> "https://www.instagram.com/"]
      [] og = "same" -> [url |-> originalUrl]
      [] OTHER -> MetadataWith({})

\* The login form of the page: a password input, a form posting to the
\* login address, or none.
PasswordMarkup(password) ==
    CASE password = "input" -> <<Open("input", [type |-> "password"])>>
      [] password = "form" ->
            <<Open("form", [action |-> "/accounts/login/ajax/"]), Close("form")>>
      [] OTHER -> <<>>

\* The post of the page: an article with its timestamp, a timestamp alone,
\* or none.
PostMarkup(post) ==
    CASE post = "article" ->
            <<Open("article", NoAttrs), Open("time", [datetime |-> "2024-01-01"]),
              Close("time"), Close("article")>>
      [] post = "time" -> <<Open("time", [datetime |-> "2024-01-01"]), Close("time")>>
      [] OTHER -> <<>>

\* The page with the given parts; the three login phrases are all at the
\* placement phrases.
InstagramPage(page) ==
    <<Open("html", NoAttrs), Open("head", NoAttrs), Open("title", NoAttrs),
      Text("Instagram"), Close("title"), Close("head"), Open("body", NoAttrs)>>
    \o PasswordMarkup(page.password)
    \o Fragment(LoginPhrases[1], page.phrases)
    \o Fragment(LoginPhrases[2], page.phrases)
    \o Fragment(LoginPhrases[3], page.phrases)
    \o PostMarkup(page.post)
    \o <<Close("body"), Close("html")>>

InstagramPages ==
    [requested : DOMAIN RequestedUrls, reached : {"login", "same"},
     title : {"generic", "post", "none"}, og : {"root", "same", "none"},
     password : {"input", "form", "none"}, phrases : {"rendered", "script", "absent"},
     post : {"article", "time", "none"}]

\* detectLoginRedirect called for the page.
DetectionOf(page, originalUrl) ==
    \E run \in {detectRun(originalUrl, ReachedUrl(page.reached, originalUrl),
                          TitleOf(page.title) @@ OgUrlOf(page.og, originalUrl),
                          InstagramPage(page))} :
        /\ call' = [fn |-> "detectLoginRedirect", page |-> page,
                    originalUrl |-> originalUrl,
                    browserUrl |-> ReachedUrl(page.reached, originalUrl),
                    metadata |-> TitleOf(page.title) @@ OgUrlOf(page.og, originalUrl),
                    htmlContent |-> InstagramPage(page)]
        /\ rule' = run.rule
        /\ lookups' = run.lookups
        /\ signalResults' = run.signalResults
        /\ result' = run.result

CallDetectOnPage ==
    /\ pc = "idle"
    /\ \E page \in InstagramPages : DetectionOf(page, RequestedUrls[page.requested])
    /\ pc' = "returned"
    /\ UNCHANGED <<loginRedirectRules, thrown>>
    /\ UNCHANGED requeueVars

NextInstagram == CallDetectOnPage \/ NextCall

SpecInstagram == InitSignals /\ [][NextInstagram]_vars

\* The weights of the five signals of the Instagram rule, in order.
ClaimedWeights == <<2, 2, 1, 1, 1>>

\* The positions of the signals that matched in the call.
MatchedPositions == {i \in 1..Len(signalResults) : signalResults[i].matched}

\* The weight of the i-th signal if it matched, else 0.
MatchedWeight(i) == IF i \in MatchedPositions THEN ClaimedWeights[i] ELSE 0

\* The sum of the weights of the matched signals.
MatchedWeightSum ==
    MatchedWeight(1) + MatchedWeight(2) + MatchedWeight(3) + MatchedWeight(4)
    + MatchedWeight(5)

\* C16: the Instagram rule is a threshold rule with thresholdWeight 3 and
\* weights 2, 2, 1, 1, 1; one matched signal alone is never positive, matched
\* signals of total weight 2 are negative, and matched signals of total
\* weight 3 or more are positive.
InstagramThreshold ==
    (pc = "returned" /\ rule # Undefined /\ rule.id = "instagram") =>
        /\ rule.detectionMode = "threshold"
        /\ Len(signalResults) = 5
        /\ \A i \in 1..5 : signalResults[i].weight = ClaimedWeights[i]
        /\ Cardinality(MatchedPositions) = 1 => ~result.isLoginRedirect
        /\ MatchedWeightSum = 2 => ~result.isLoginRedirect
        /\ MatchedWeightSum >= 3 => result.isLoginRedirect

\* A post page whose only sign of a login page is the generic title
\* (weight 2): negative.
InstagramThresholdWitness ==
    /\ pc = "returned" /\ rule = instagramRule
    /\ call.page.requested = "post" /\ call.page.title = "generic"
    /\ call.page.og = "same" /\ call.page.post = "article"
    /\ MatchedPositions = {1}
    /\ result = [isLoginRedirect |-> FALSE]

\* The page reached is the login page: generic title, og:url at the site
\* root, a password input, the login phrases in body text, no article and no
\* timestamp.
LoginPageReached(page) ==
    /\ page.title = "generic" /\ page.og = "root"
    /\ page.password = "input" /\ page.phrases = "rendered" /\ page.post = "none"

\* The page reached is the post: post-specific title, og:url the URL asked
\* for, an article with its timestamp, no password field.
PostPageReached(page) ==
    /\ page.title = "post" /\ page.og = "same"
    /\ page.password = "none" /\ page.post = "article"

\* C17: for a post, reel or stories URL, the login page gives a positive
\* result for "Instagram" whose reason joins more than one description, and
\* the post page gives a negative result.
LoginPageDetected ==
    (pc = "returned" /\ call.fn = "detectLoginRedirect" /\ Has(call, "page")
     /\ call.page.requested \in ContentKinds) =>
        /\ LoginPageReached(call.page) =>
              /\ result.isLoginRedirect
              /\ result.siteName = "Instagram"
              /\ Len(result.reason) > 0
              /\ includes(result.reason, "; ")
              /\ Cardinality(MatchedPositions) > 1
        /\ PostPageReached(call.page) => result = [isLoginRedirect |-> FALSE]

\* A reel asked for and the login page reached: positive, all five signals
\* in the reason.
LoginPageDetectedWitness ==
    /\ pc = "returned" /\ Has(call, "page")
    /\ call.page.requested = "reel" /\ call.page.reached = "login"
    /\ LoginPageReached(call.page)
    /\ result.isLoginRedirect
    /\ MatchedPositions = 1..5

---------------------------------------------------------------------------
(* The loop of evaluateRule.                                               *)

\* C18: the checks made so far are those of the first signals of the rule,
\* one each, in declaration order, on the context of the call; no verdict
\* exists before the last signal is checked, and when evaluateRule returns
\* every signal has been checked, also when the earlier checks had already
\* decided the verdict.
EverySignalChecked ==
    (call.fn = "evaluateRule") =>
        /\ Len(signalResults) <= Len(rule.signals)
        /\ \A i \in 1..Len(signalResults) :
              /\ signalResults[i].id = rule.signals[i].id
              /\ signalResults[i].matched = SignalCheck(rule.signals[i], call.context)
        /\ Len(signalResults) < Len(rule.signals) => (pc = "signals" /\ result = Undefined)
        /\ pc = "returned" => Len(signalResults) = Len(rule.signals)

\* An "any" rule whose first signal matched: the verdict was decided by the
\* first check, and the other two signals were checked before the return.
EverySignalCheckedWitness ==
    /\ pc = "returned" /\ call.fn = "evaluateRule"
    /\ rule.detectionMode = "any"
    /\ Len(rule.signals) = 3 /\ Len(signalResults) = 3
    /\ signalResults[1].matched /\ ~signalResults[3].matched
    /\ result.isLoginRedirect

---------------------------------------------------------------------------
(* Properties of "og-url-mismatch".                                        *)

OgUrlChecked == pc = "returned" /\ call.signal = "og-url-mismatch"

\* Both URLs of the call can be parsed.
BothParsable ==
    /\ call.og.kind = "written" /\ call.og.parsable
    /\ call.original.parsable

\* C19 as stated, on the paths of the two URLs: false without og:url and
\* with an unparsable URL; otherwise a match exactly when the requested path
\* is not the root and the og:url path is, or the requested path contains
\* /p/, /reel/ or /stories/ and the og:url path does not; no match when both
\* URLs are equal.
OgUrlMismatchOnPaths ==
    OgUrlChecked =>
        /\ result \in BOOLEAN
        /\ ~BothParsable => ~result
        /\ BothParsable =>
              result = (\/ ~call.original.path.root /\ call.og.path.root
                        \/ call.original.path.content /\ ~call.og.path.content)
        /\ (call.og.kind = "written" /\ call.og.text = call.original.text) => ~result

\* C19: the same on the paths without their trailing slashes, as the check
\* compares them.
OgUrlMismatchOnTrimmedPaths ==
    OgUrlChecked =>
        /\ result \in BOOLEAN
        /\ ~BothParsable => ~result
        /\ BothParsable =>
              result = (\/ ~call.original.path.trimmedRoot /\ call.og.path.trimmedRoot
                        \/ /\ call.original.path.trimmedContent
                           /\ ~call.og.path.trimmedContent)
        /\ (call.og.kind = "written" /\ call.og.text = call.original.text) => ~result

\* A post asked for, og:url the login page with the post in its query only:
\* a match.
OgUrlMismatchOnTrimmedPathsWitness ==
    /\ OgUrlChecked
    /\ call.original.text = "https://www.instagram.com/p/ABC123/"
    /\ call.og.kind = "written"
    /\ call.og.text = "https://www.instagram.com/accounts/login/?next=/p/ABC123/"
    /\ result = TRUE

---------------------------------------------------------------------------
(* workers/adminMaintenance/tasks/requeueSkippedDomains.ts:                *)
(* runRequeueSkippedDomainsTask, statement by statement, every await a     *)
(* step of its own: SpecRequeue.                                           *)
(*                                                                         *)
(* A row of bookmarkLinks joined with bookmarks is [id, url, crawlStatus,  *)
(* type, userId]; the table is kept in the order of its ids.  job holds    *)
(* job.abortSignal.aborted, the locals of the task and its position; it    *)
(* has no cursor field while cursor is undefined.                          *)

MaxBookmarks == 3

\* BATCH_SIZE is 100 in the source; the tables of the model have at most
\* MaxBookmarks rows, so the batch is scaled down to make the task page.
BATCH_SIZE == 2

\* The ids of the rows, in the order of the database.
BookmarkIds == <<"bm1", "bm2", "bm3", "bm4", "bm5">>

\* The position of an id in the order of the ids.
IdOrder(id) == CHOOSE i \in 1..Len(BookmarkIds) : BookmarkIds[i] = id

\* gt(bookmarkLinks.id, cursor)
gt(id, cursor) == IdOrder(id) > IdOrder(cursor)

\* The domains of the skip list of the crawler configuration.
SkipDomains == {"blocked.example"}

\* shouldSkipDomain(url) of ../../../network: the host of url is in the skip
\* list.
shouldSkipDomain(url) == ParseURL(url).ok /\ ParseURL(url).hostname \in SkipDomains

BookmarkUrls == {"https://blocked.example/a", "https://open.example/b"}
CrawlStatuses == {"skipped", "pending", "success"}
BookmarkTypes == {"link", "text"}

\* The tables of n rows.
TablesOf(n) ==
    {[i \in 1..n |-> [id |-> BookmarkIds[i], userId |-> "user1"] @@ row[i]] :
        row \in [1..n -> [url : BookmarkUrls, crawlStatus : CrawlStatuses,
                          type : BookmarkTypes]]}

InitRequeue ==
    /\ loginRedirectRules = <<instagramRule>>
    /\ call = NoCall
    /\ rule = Undefined
    /\ lookups = <<>>
    /\ signalResults = <<>>
    /\ result = Undefined
    /\ thrown = Undefined
    /\ pc = "idle"
    /\ bookmarkLinks \in UNION {TablesOf(n) : n \in 0..MaxBookmarks}
    /\ bookmarkLinksAtStart = bookmarkLinks
    /\ LinkCrawlerQueue = <<>>
    /\ job = [aborted |-> FALSE, pc |-> "while",
              skippedBookmarks |-> <<>>, bookmarksToRequeue |-> <<>>, index |-> 0,
              requeuedCount |-> 0, processedCount |-> 0]

\* The first n elements of a sequence, or the whole of it.
Limit(rows, n) == SubSeq(rows, 1, IF Len(rows) < n THEN Len(rows) ELSE n)

\* Variant: the select without the cursor condition.
selectSkippedIgnoringCursor(table, locals) ==
    Limit(SelectSeq(table,
            LAMBDA row : row.crawlStatus = "skipped" /\ row.type = "link"),
          BATCH_SIZE)

\* Variant: pagination by offset (the rows already processed are skipped by
\* count) instead of by cursor.
selectSkippedByOffset(table, locals) ==
    Limit(LET skipped == SelectSeq(table,
                LAMBDA row : row.crawlStatus = "skipped" /\ row.type = "link")
          IN  SubSeq(skipped, locals.processedCount + 1, Len(skipped)),
          BATCH_SIZE)

\* The select: the rows after the cursor that are skipped link bookmarks, in
\* the order of their ids, BATCH_SIZE of them at most.
selectSkipped(table, locals) ==
    Limit(SelectSeq(table,
            LAMBDA row : /\ Has(locals, "cursor") => gt(row.id, locals.cursor)
                         /\ row.crawlStatus = "skipped"
                         /\ row.type = "link"),
          BATCH_SIZE)

\* skippedBookmarks.filter((bookmark) => !shouldSkipDomain(bookmark.url))
filterRequeue(rows) == SelectSeq(rows, LAMBDA bookmark : ~shouldSkipDomain(bookmark.url))

\* update(bookmarkLinks).set({crawlStatus: "pending"}).where(inArray(id, ids))
updatePending(table, ids) ==
    [i \in 1..Len(table) |->
        IF table[i].id \in ids THEN [table[i] EXCEPT !.crawlStatus = "pending"]
        ELSE table[i]]

\* The job enqueued for a bookmark.
crawlJob(bookmark) ==
    [bookmarkId |-> bookmark.id, runInference |-> TRUE,
     idempotencyKey |-> "requeue_skipped:" \o bookmark.id,
     groupId |-> bookmark.userId]

\* while (!job.abortSignal.aborted)
While ==
    /\ job.pc = "while"
    /\ job' = [job EXCEPT !.pc = IF job.aborted THEN "done" ELSE "select"]
    /\ UNCHANGED <<bookmarkLinks, LinkCrawlerQueue, bookmarkLinksAtStart>>
    /\ UNCHANGED detectionVars

\* const skippedBookmarks = await db.select(...);
\* if (skippedBookmarks.length === 0) break;
SelectBatch ==
    /\ job.pc = "select"
    /\ \E batch \in {selectSkipped(bookmarkLinks, job)} :
          job' = [job EXCEPT !.skippedBookmarks = batch,
                             !.pc = IF Len(batch) = 0 THEN "done" ELSE "filter"]
    /\ UNCHANGED <<bookmarkLinks, LinkCrawlerQueue, bookmarkLinksAtStart>>
    /\ UNCHANGED detectionVars

\* if (job.abortSignal.aborted) break; const bookmarksToRequeue = ...;
\* if (bookmarksToRequeue.length > 0)
FilterBatch ==
    /\ job.pc = "filter"
    /\ IF job.aborted
       THEN job' = [job EXCEPT !.pc = "done"]
       ELSE \E requeue \in {filterRequeue(job.skippedBookmarks)} :
               job' = [job EXCEPT !.bookmarksToRequeue = requeue,
                                  !.pc = IF Len(requeue) > 0 THEN "update" ELSE "advance"]
    /\ UNCHANGED <<bookmarkLinks, LinkCrawlerQueue, bookmarkLinksAtStart>>
    /\ UNCHANGED detectionVars

\* await db.update(bookmarkLinks).set(...).where(inArray(..., idsToUpdate))
UpdateBatch ==
    /\ job.pc = "update"
    /\ bookmarkLinks' = updatePending(bookmarkLinks,
          {job.bookmarksToRequeue[i].id : i \in 1..Len(job.bookmarksToRequeue)})
    /\ job' = [job EXCEPT !.pc = "enqueue", !.index = 1]
    /\ UNCHANGED <<LinkCrawlerQueue, bookmarkLinksAtStart>>
    /\ UNCHANGED detectionVars

\* One iteration of  for (const bookmark of bookmarksToRequeue)  whose
\* enqueue succeeds.
Enqueue ==
    /\ job.pc = "enqueue"
    /\ job.index <= Len(job.bookmarksToRequeue)
    /\ LinkCrawlerQueue' =
          Append(LinkCrawlerQueue, crawlJob(job.bookmarksToRequeue[job.index]))
    /\ job' = [job EXCEPT !.index = @ + 1]
    /\ UNCHANGED <<bookmarkLinks, bookmarkLinksAtStart>>
    /\ UNCHANGED detectionVars

\* An iteration whose enqueue rejects: the task ends with that error.
EnqueueRejects ==
    /\ job.pc = "enqueue"
    /\ job.index <= Len(job.bookmarksToRequeue)
    /\ job' = [job EXCEPT !.pc = "rejected"]
    /\ UNCHANGED <<bookmarkLinks, LinkCrawlerQueue, bookmarkLinksAtStart>>
    /\ UNCHANGED detectionVars

\* requeuedCount += bookmarksToRequeue.length, after the loop.
EndEnqueue ==
    /\ job.pc = "enqueue"
    /\ job.index > Len(job.bookmarksToRequeue)
    /\ job' = [job EXCEPT !.requeuedCount = @ + Len(job.bookmarksToRequeue),
                          !.pc = "advance"]
    /\ UNCHANGED <<bookmarkLinks, LinkCrawlerQueue, bookmarkLinksAtStart>>
    /\ UNCHANGED detectionVars

\* processedCount += skippedBookmarks.length; cursor = the id of the last row
Advance ==
    /\ job.pc = "advance"
    /\ job' = [cursor |-> job.skippedBookmarks[Len(job.skippedBookmarks)].id]
               @@ [job EXCEPT !.processedCount = @ + Len(job.skippedBookmarks),
                              !.pc = "while"]
    /\ UNCHANGED <<bookmarkLinks, LinkCrawlerQueue, bookmarkLinksAtStart>>
    /\ UNCHANGED detectionVars

\* The queue runner aborts the job while the task runs.
Abort ==
    /\ job.pc \notin {"done", "rejected"}
    /\ ~job.aborted
    /\ job' = [job EXCEPT !.aborted = TRUE]
    /\ UNCHANGED <<bookmarkLinks, LinkCrawlerQueue, bookmarkLinksAtStart>>
    /\ UNCHANGED detectionVars

NextRequeue ==
    \/ While \/ SelectBatch \/ FilterBatch \/ UpdateBatch
    \/ Enqueue \/ EnqueueRejects \/ EndEnqueue \/ Advance \/ Abort

SpecRequeue == InitRequeue /\ [][NextRequeue]_vars

---------------------------------------------------------------------------
(* Properties of runRequeueSkippedDomainsTask.                             *)

\* The task ran to its end and was not aborted.
CompletedUnaborted == job.pc = "done" /\ ~job.aborted

\* The jobs enqueued for the bookmark id.
EnqueuedFor(id) == SelectSeq(LinkCrawlerQueue, LAMBDA j : j.bookmarkId = id)

\* The row was a skipped link bookmark whose domain has left the skip list.
ToBeRequeued(row) ==
    row.type = "link" /\ row.crawlStatus = "skipped" /\ ~shouldSkipDomain(row.url)

\* C20: after a run to completion without abort, every link bookmark that
\* was skipped and whose domain is not in the skip list is pending and has
\* one job on the crawler queue, with idempotency key requeue_skipped:<id>;
\* every other row (skipped with a domain still in the skip list, or of
\* another status or type) is as it was and has no job.
RequeuedExactlyOnce ==
    CompletedUnaborted =>
        /\ Len(bookmarkLinks) = Len(bookmarkLinksAtStart)
        /\ \A i \in 1..Len(bookmarkLinks) :
              IF ToBeRequeued(bookmarkLinksAtStart[i])
              THEN /\ bookmarkLinks[i] =
                         [bookmarkLinksAtStart[i] EXCEPT !.crawlStatus = "pending"]
                   /\ Len(EnqueuedFor(bookmarkLinks[i].id)) = 1
                   /\ EnqueuedFor(bookmarkLinks[i].id)[1].idempotencyKey
                         = "requeue_skipped:" \o bookmarkLinks[i].id
              ELSE /\ bookmarkLinks[i] = bookmarkLinksAtStart[i]
                   /\ Len(EnqueuedFor(bookmarkLinks[i].id)) = 0

\* A completed run over three skipped link bookmarks, the first with a
\* domain still in the skip list: two batches, the other two requeued.
RequeuedExactlyOnceWitness ==
    /\ CompletedUnaborted
    /\ Len(bookmarkLinks) = 3
    /\ job.processedCount = 3
    /\ bookmarkLinks[1].crawlStatus = "skipped"
    /\ bookmarkLinks[2].crawlStatus = "pending" /\ bookmarkLinks[3].crawlStatus = "pending"
    /\ bookmarkLinksAtStart[3].crawlStatus = "skipped"
    /\ Len(LinkCrawlerQueue) = 2
    /\ LinkCrawlerQueue[2].idempotencyKey = "requeue_skipped:bm3"

---------------------------------------------------------------------------
(* The other version of runRequeueSkippedDomainsTask                       *)
(* (apps/workers/workers/adminMaintenance/tasks/requeueSkippedDomains.ts): *)
(* the same select and cursor, but each bookmark of the batch is updated   *)
(* and enqueued on its own, and the abort signal is read before each       *)
(* bookmark.  job.version tells which of the two versions runs.            *)

\* The two versions of the task and the label at which each starts.
TaskVersions == {[name |-> "batch", pc |-> "while"],
                 [name |-> "perBookmark", pc |-> "whileEach"]}

InitVersions ==
    /\ loginRedirectRules = <<instagramRule>>
    /\ call = NoCall
    /\ rule = Undefined
    /\ lookups = <<>>
    /\ signalResults = <<>>
    /\ result = Undefined
    /\ thrown = Undefined
    /\ pc = "idle"
    /\ bookmarkLinks \in UNION {TablesOf(n) : n \in 0..MaxBookmarks}
    /\ bookmarkLinksAtStart = bookmarkLinks
    /\ LinkCrawlerQueue = <<>>
    /\ \E version \in TaskVersions :
          job = [version |-> version.name, aborted |-> FALSE, pc |-> version.pc,
                 skippedBookmarks |-> <<>>, bookmarksToRequeue |-> <<>>, index |-> 0,
                 requeuedCount |-> 0, processedCount |-> 0]

\* while (!job.abortSignal.aborted)
WhileEach ==
    /\ job.pc = "whileEach"
    /\ job' = [job EXCEPT !.pc = IF job.aborted THEN "done" ELSE "selectEach"]
    /\ UNCHANGED <<bookmarkLinks, LinkCrawlerQueue, bookmarkLinksAtStart>>
    /\ UNCHANGED detectionVars

\* const skippedBookmarks = await db.select(...);
\* if (skippedBookmarks.length === 0) break;
SelectEach ==
    /\ job.pc = "selectEach"
    /\ \E batch \in {selectSkipped(bookmarkLinks, job)} :
          job' = [job EXCEPT !.skippedBookmarks = batch, !.index = 1,
                             !.pc = IF Len(batch) = 0 THEN "done" ELSE "for"]
    /\ UNCHANGED <<bookmarkLinks, LinkCrawlerQueue, bookmarkLinksAtStart>>
    /\ UNCHANGED detectionVars

\* The head of one iteration of  for (const bookmark of skippedBookmarks):
\* the loop is over, or left by the break on the abort signal; or the domain
\* of the bookmark is still in the skip list and the next bookmark follows;
\* or the bookmark is to be requeued.
ForEach ==
    /\ job.pc = "for"
    /\ job' = IF job.index > Len(job.skippedBookmarks) \/ job.aborted
              THEN [job EXCEPT !.pc = "advanceEach"]
              ELSE IF ~shouldSkipDomain(job.skippedBookmarks[job.index].url)
              THEN [job EXCEPT !.pc = "updateEach"]
              ELSE [job EXCEPT !.index = @ + 1]
    /\ UNCHANGED <<bookmarkLinks, LinkCrawlerQueue, bookmarkLinksAtStart>>
    /\ UNCHANGED detectionVars

\* await db.update(bookmarkLinks).set({crawlStatus: "pending"})
\*         .where(eq(bookmarkLinks.id, bookmark.id))
UpdateEach ==
    /\ job.pc = "updateEach"
    /\ bookmarkLinks' = updatePending(bookmarkLinks, {job.skippedBookmarks[job.index].id})
    /\ job' = [job EXCEPT !.pc = "enqueueEach"]
    /\ UNCHANGED <<LinkCrawlerQueue, bookmarkLinksAtStart>>
    /\ UNCHANGED detectionVars

\* await LinkCrawlerQueue.enqueue(...) succeeds; requeuedCount++
EnqueueEach ==
    /\ job.pc = "enqueueEach"
    /\ LinkCrawlerQueue' =
          Append(LinkCrawlerQueue, crawlJob(job.skippedBookmarks[job.index]))
    /\ job' = [job EXCEPT !.requeuedCount = @ + 1, !.index = @ + 1, !.pc = "for"]
    /\ UNCHANGED <<bookmarkLinks, bookmarkLinksAtStart>>
    /\ UNCHANGED detectionVars

\* await LinkCrawlerQueue.enqueue(...) rejects: the task ends with that error.
EnqueueEachRejects ==
    /\ job.pc = "enqueueEach"
    /\ job' = [job EXCEPT !.pc = "rejected"]
    /\ UNCHANGED <<bookmarkLinks, LinkCrawlerQueue, bookmarkLinksAtStart>>
    /\ UNCHANGED detectionVars

\* cursor = skippedBookmarks[skippedBookmarks.length - 1]?.id
AdvanceEach ==
    /\ job.pc = "advanceEach"
    /\ job' = [cursor |-> job.skippedBookmarks[Len(job.skippedBookmarks)].id]
               @@ [job EXCEPT !.pc = "whileEach"]
    /\ UNCHANGED <<bookmarkLinks, LinkCrawlerQueue, bookmarkLinksAtStart>>
    /\ UNCHANGED detectionVars

NextVersions ==
    \/ While \/ SelectBatch \/ FilterBatch \/ UpdateBatch
    \/ Enqueue \/ EnqueueRejects \/ EndEnqueue \/ Advance
    \/ WhileEach \/ SelectEach \/ ForEach \/ UpdateEach
    \/ EnqueueEach \/ EnqueueEachRejects \/ AdvanceEach
    \/ Abort

SpecVersions == InitVersions /\ [][NextVersions]_vars

\* The task has stopped: it returned, or ended with the error of an enqueue.
Stopped == job.pc \in {"done", "rejected"}

\* The task changed the crawlStatus of row i from skipped to pending.
MadePending(i) ==
    /\ bookmarkLinksAtStart[i].crawlStatus = "skipped"
    /\ bookmarkLinks[i].crawlStatus = "pending"

\* C21: once the task has stopped (returned, aborted or failed on an
\* enqueue), every bookmark whose crawlStatus it changed from skipped to
\* pending has a crawl job on the queue.
PendingHasJob ==
    Stopped =>
        \A i \in 1..Len(bookmarkLinks) :
            MadePending(i) => Len(EnqueuedFor(bookmarkLinks[i].id)) >= 1

\* The same, of a task that is running: between the update and the enqueue a
\* bookmark is pending without a job, so the property is one of the stopped
\* task only.  In the runs in which no enqueue rejects it holds, aborted or
\* not.
PendingHasJobUnlessRejected ==
    job.pc = "done" =>
        \A i \in 1..Len(bookmarkLinks) :
            MadePending(i) => Len(EnqueuedFor(bookmarkLinks[i].id)) = 1

\* A run aborted in the enqueue loop of the batch version: the loop does not
\* read the abort signal, every bookmark of the batch gets its job.
AbortedInEnqueueLoop ==
    /\ job.pc = "done" /\ job.aborted /\ job.version = "batch"
    /\ Len(LinkCrawlerQueue) = 2
    /\ \E i \in 1..Len(bookmarkLinks) : MadePending(i)

\* A run of each version that ended on a rejected enqueue and left a
\* bookmark pending without a job.
LeftPendingBy(version) ==
    /\ job.pc = "rejected" /\ job.version = version
    /\ \E i \in 1..Len(bookmarkLinks) :
          MadePending(i) /\ Len(EnqueuedFor(bookmarkLinks[i].id)) = 0

---------------------------------------------------------------------------
(* Termination of runRequeueSkippedDomainsTask (src/unnamed/part_001).     *)

\* A step of the task itself: every statement of it, once reached, is
\* executed, and every awaited select, update or enqueue settles.
TaskStep ==
    \/ While \/ SelectBatch \/ FilterBatch \/ UpdateBatch
    \/ Enqueue \/ EnqueueRejects \/ EndEnqueue \/ Advance

\* The task under that scheduling; the abort signal may be set or not.
SpecRequeueFair == SpecRequeue /\ WF_vars(TaskStep)

\* The ids of a batch.
IdsOf(batch) == {batch[i].id : i \in 1..Len(batch)}

\* End of an iteration: the cursor is set, and is above the cursor of the
\* iteration before.
CursorIncreases ==
    (job.pc = "advance" /\ job'.pc = "while") =>
        /\ Has(job', "cursor")
        /\ job'.cursor \in IdsOf(job.skippedBookmarks)
        /\ Has(job, "cursor") => gt(job'.cursor, job.cursor)

\* A select: the batch fetched holds each bookmark once, and none that a
\* batch before held (job.skippedBookmarks is the batch of the iteration
\* before until the select assigns it; the batches are ascending in id).
FetchedOnce ==
    (job.pc = "select" /\ job'.pc # "select") =>
        /\ \A i, j \in 1..Len(job'.skippedBookmarks) :
              i < j => gt(job'.skippedBookmarks[j].id, job'.skippedBookmarks[i].id)
        /\ \A new \in IdsOf(job'.skippedBookmarks) :
              \A old \in IdsOf(job.skippedBookmarks) : gt(new, old)

\* The abort signal read as set, by the loop condition or by the check after
\* the select: the loop is left, nothing more is fetched.
AbortObserved ==
    (job.aborted /\ job.pc \in {"while", "filter"}) => job'.pc = "done"

\* The loop is left on an empty batch or on the abort signal only.
EndsOnEmptyOrAbort ==
    job.pc = "done" => (job.aborted \/ Len(job.skippedBookmarks) = 0)

\* C22: the task terminates on every table; the cursor strictly increases
\* with each non-empty batch, so no bookmark is fetched in two batches (also
\* those that stay skipped); the loop ends on an empty batch or on the abort
\* signal, and once the abort signal is observed no batch is fetched.
TerminatesByCursor ==
    /\ <>Stopped
    /\ [][CursorIncreases /\ FetchedOnce /\ AbortObserved]_vars
    /\ []EndsOnEmptyOrAbort

\* A run over three skipped link bookmarks that all stay skipped (their
\* domain is in the skip list): two non-empty batches and an empty one.
TerminatesByCursorWitness ==
    /\ job.pc = "done" /\ ~job.aborted
    /\ Len(bookmarkLinks) = 3
    /\ \A i \in 1..3 : bookmarkLinks[i].crawlStatus = "skipped"
                       /\ bookmarkLinks[i].type = "link"
    /\ job.processedCount = 3
    /\ Has(job, "cursor") /\ job.cursor = "bm3"
    /\ LinkCrawlerQueue = <<>>

===========================================================================
